---- MODULE Spec2Model ----
(***************************************************************************)
(* Model of the query-routing and dual-backend engine of the AI chatbot:   *)
(* ChatEngine (src/src/chat_engine.py), DatabaseHandler                    *)
(* (src/src/database_handler.py), DocumentHandler                          *)
(* (src/src/document_handler.py), TokenTracker (src/src/token_tracker.py), *)
(* the upload path of src/app.py and start_database of                     *)
(* src/docker_db_manager.py.                                               *)
(*                                                                         *)
(* Python strings are TLA+ strings; the string functions below work on     *)
(* their characters (SubSeq(s, i, i) is the i-th character).  The          *)
(* collaborators (language model, NL-to-SQL engine, relational store,      *)
(* retrieval index) are nondeterministic choices over their outcomes.      *)
(***************************************************************************)
EXTENDS Integers, Sequences, FiniteSets, TLC

VARIABLES
    messages,           \* st.session_state.messages
    clock,              \* number of add_message calls so far (datetime.now())
    appended,           \* add_message calls since the store was last empty
    midMessages,        \* the store between the two add_message calls of the
                        \* last process_message (<<>> after any other call)
    engine,             \* DatabaseHandler.engine
    sql_database,       \* DatabaseHandler.sql_database
    connection_status,  \* DatabaseHandler.connection_status
    available_tables,   \* DatabaseHandler.available_tables
    table_schemas,      \* DatabaseHandler.table_schemas
    uploaded_files,     \* st.session_state.uploaded_files
    document_index,     \* DocumentHandler.document_index
    call,               \* the last call made by the application and its input
    route,              \* what classify_query returned in the last call
    executed,           \* statements the last call sent to the relational
                        \* store through execute_sql_query, each with the
                        \* store's answer
    translated,         \* the sql_query the NL-to-SQL engine reported in the
                        \* last call, None when it reported none
    asked,              \* the question the last call handed to the NL-to-SQL
                        \* engine, None when it handed none
    failure,            \* the backend that failed in the last process_message
                        \* or process_database_query, None when none did
    token_usage,        \* st.session_state.token_usage
    OPENAI_PRICING,     \* the module-level price table of token_tracker.py
    history,            \* every record track_request created, oldest first
    manager,            \* docker_db_manager.py: where start_database is,
                        \* what it found, and the readiness checks it made
    ret                 \* what the last call returned

vars == <<messages, clock, appended, midMessages, engine, sql_database,
          connection_status, available_tables, table_schemas, uploaded_files,
          document_index, call, route, executed, translated, asked,
          failure, token_usage, OPENAI_PRICING, history, manager, ret>>

(***************************************************************************)
(* Bounds of the model.                                                    *)
(***************************************************************************)
\* settings.MAX_CONVERSATION_HISTORY, scaled down from 20
MAX_CONVERSATION_HISTORY == 1
\* add_message calls in one behaviour
MaxAppends == 4
\* settings.MAX_DOCUMENTS, scaled down from 100
MAX_DOCUMENTS == 2

\* Python's None where a str is expected, and where an object is expected
None == "<None>"
NoneObj == <<>>

(***************************************************************************)
(* Python str functions.                                                   *)
(***************************************************************************)
CharAt(s, i) == SubSeq(s, i, i)

UpperAlphabet == "ABCDEFGHIJKLMNOPQRSTUVWXYZ"
LowerAlphabet == "abcdefghijklmnopqrstuvwxyz"

\* str.isspace for one character
IsSpace(c) == c \in {" ", "\t", "\n"}

LowerChar(c) ==
    IF \E i \in 1..26 : CharAt(UpperAlphabet, i) = c
    THEN CharAt(LowerAlphabet, CHOOSE i \in 1..26 : CharAt(UpperAlphabet, i) = c)
    ELSE c

UpperChar(c) ==
    IF \E i \in 1..26 : CharAt(LowerAlphabet, i) = c
    THEN CharAt(UpperAlphabet, CHOOSE i \in 1..26 : CharAt(LowerAlphabet, i) = c)
    ELSE c

RECURSIVE StrLower(_)
\* str.lower()
StrLower(s) == IF s = "" THEN "" ELSE LowerChar(Head(s)) \o StrLower(Tail(s))

RECURSIVE StrUpper(_)
\* str.upper()
StrUpper(s) == IF s = "" THEN "" ELSE UpperChar(Head(s)) \o StrUpper(Tail(s))

\* the text used as it is, strip() forgotten
StrStrip_Missing(s) == s

\* str.strip()
StrStrip(s) ==
    LET keep == {i \in 1..Len(s) : ~IsSpace(CharAt(s, i))}
    IN  IF keep = {} THEN ""
        ELSE SubSeq(s, CHOOSE i \in keep : \A j \in keep : i <= j,
                       CHOOSE i \in keep : \A j \in keep : i >= j)

\* sub in s
StrContains(s, sub) ==
    \E i \in 1..(Len(s) - Len(sub) + 1) : SubSeq(s, i, i + Len(sub) - 1) = sub

\* s.startswith(prefix)
StrStartsWith(s, prefix) ==
    Len(s) >= Len(prefix) /\ SubSeq(s, 1, Len(prefix)) = prefix

\* len(s.split())
WordCount(s) ==
    Cardinality({i \in 1..Len(s) :
        /\ ~IsSpace(CharAt(s, i))
        /\ (i = 1 \/ IsSpace(CharAt(s, i - 1)))})

\* seq[-n:] for n > 0
LastN(seq, n) ==
    IF Len(seq) <= n THEN seq ELSE SubSeq(seq, Len(seq) - n + 1, Len(seq))

\* Python's empty dict
EmptyDict == <<>>

\* dict.get(key, default)
DictGet(d, key, default) == IF key \in DOMAIN d THEN d[key] ELSE default

(***************************************************************************)
(* Inputs and collaborator outcomes.                                       *)
(***************************************************************************)
\* texts typed into the chat input
UserTexts ==
    {"", " \t\n", "hi", "Select rows", "what does the file say"}

\* sql_query values the NL-to-SQL engine reports in response.metadata
Statements ==
    {"SELECT * FROM customers", "  select 1\n", "DELETE FROM customers"}

\* statements handed to execute_sql_query directly
Queries ==
    Statements \cup {"", " \t", "\n drop table customers",
                     "UPDATE customers SET name = 'SELECT'",
                     "WITH x AS (SELECT 1) SELECT * FROM x", "Selec"}

\* texts handed to classify_query directly
ClassifyTexts ==
    {"hi", "one two three", "Show me all customers", "Select rows",
     "what does the file say", "SQL in the PDF", "the context",
     "According To Bob", "one  two\tthree four", "sum it"}

\* exception texts, str(e)
ErrorText == "boom"

\* str(response) of a collaborator
AnswerText == "answer"

\* connection strings: wrong scheme, unreachable server, reachable server
ConnectionStrings == {"sqlite://x", "postgresql://down/db", "postgresql://up/db"}

\* does a connection to the server named by the string succeed
Reachable(connection_string) == connection_string = "postgresql://up/db"

\* what the inspector reports of a live database, schema by schema and in
\* the inspector's order: a shop, and the shop once a sales schema was added
ShopTables ==
    <<[schema |-> "public", table |-> "products",
       columns |-> <<"id", "name", "category">>],
      [schema |-> "public", table |-> "customers",
       columns |-> <<"id", "name">>],
      [schema |-> "information_schema", table |-> "tables",
       columns |-> <<"table_name">>]>>

ShopAndSalesTables ==
    <<[schema |-> "public", table |-> "products",
       columns |-> <<"id", "name", "category">>],
      [schema |-> "public", table |-> "customers",
       columns |-> <<"id", "name">>],
      [schema |-> "sales", table |-> "orders", columns |-> <<"id">>]>>

\* outcomes of the inspection in _load_table_information: every call
\* answers, inspect() or get_schema_names() raises, or get_columns() raises
\* on the first table
LoadOutcomes ==
    {[kind |-> "loaded", entries |-> e] :
        e \in {ShopTables, ShopAndSalesTables}}
    \cup {[kind |-> "inspect_error", entries |-> ShopTables],
          [kind |-> "columns_error", entries |-> ShopTables]}

\* the inspection answering for the shop
ShopLoaded == [kind |-> "loaded", entries |-> ShopTables]

\* result tables the relational store can return for a SELECT
DataFrame(columns, rows) == [columns |-> columns, rows |-> rows]

ResultTables ==
    {DataFrame(<<"id", "name">>, <<>>),
     DataFrame(<<"id", "name">>, <<<<"1", "a">>, <<"2", "b">>>>)}

\* outcomes of conn.execute(text(query)) ... pd.DataFrame(rows, columns)
ExecutionOutcomes ==
    {[kind |-> "SQLAlchemyError"]}
    \cup {[kind |-> "rows", df |-> t] : t \in ResultTables}

\* outcomes of NLSQLTableQueryEngine.query(enhanced_question)
TranslationOutcomes ==
    {[kind |-> "SQLAlchemyError"], [kind |-> "Exception"]}
    \cup {[kind |-> "response", text |-> AnswerText, metadata |-> EmptyDict]}
    \cup {[kind |-> "response", text |-> AnswerText,
           metadata |-> [sql_query |-> q]] : q \in Statements \cup {""}}

\* files offered to the upload widget: size in bytes, content the raw bytes
UploadFiles ==
    {[name |-> "a.txt", content |-> "alpha", size |-> 5],
     [name |-> "b.pdf", content |-> "alpha", size |-> 5],
     [name |-> "c.txt", content |-> "gamma", size |-> 5],
     [name |-> "d.exe", content |-> "delta", size |-> 5]}

\* outcomes of text extraction and indexing in process_document
ProcessingOutcomes == {"indexed", "no_text", "error"}

\* outcomes of llm.complete(user_message)
CompletionOutcomes ==
    {[kind |-> "Exception"], [kind |-> "response", text |-> AnswerText]}

(***************************************************************************)
(* ChatEngine: the conversation store.                                     *)
(***************************************************************************)
Message(role, content, now, metadata) ==
    [role |-> role, content |-> content, timestamp |-> now,
     metadata |-> metadata]

\* add_message slicing messages[:2 * limit], which keeps the oldest
AddMessage_KeepsOldest(store, role, content, metadata, now) ==
    LET grown == Append(store, Message(role, content, now, metadata))
    IN  IF Len(grown) > MAX_CONVERSATION_HISTORY * 2
        THEN SubSeq(grown, 1, MAX_CONVERSATION_HISTORY * 2)
        ELSE grown

\* add_message without the history limit
AddMessage_NoLimit(store, role, content, metadata, now) ==
    Append(store, Message(role, content, now, metadata))

\* add_message slicing one message too many
AddMessage_OffByOne(store, role, content, metadata, now) ==
    LET grown == Append(store, Message(role, content, now, metadata))
    IN  IF Len(grown) > MAX_CONVERSATION_HISTORY * 2
        THEN LastN(grown, MAX_CONVERSATION_HISTORY * 2 - 1)
        ELSE grown

\* ChatEngine.add_message: the store after the call
AddMessage(store, role, content, metadata, now) ==
    LET grown == Append(store, Message(role, content, now, metadata))
    IN  IF Len(grown) > MAX_CONVERSATION_HISTORY * 2
        THEN LastN(grown, MAX_CONVERSATION_HISTORY * 2)
        ELSE grown

(***************************************************************************)
(* ChatEngine.classify_query                                               *)
(***************************************************************************)
db_keywords ==
    {"database", "table", "sql", "query", "select", "from", "where",
     "join", "count", "sum", "average", "data", "records", "rows",
     "columns", "schema", "postgres", "postgresql"}

doc_keywords ==
    {"document", "file", "pdf", "text", "uploaded", "content",
     "what does the document say", "in the file", "according to"}

\* DatabaseHandler.get_connection_status
GetConnectionStatus == connection_status

\* DocumentHandler.get_uploaded_files
GetUploadedFiles == uploaded_files

\* truth value of a dict
Truthy(d) == DOMAIN d # {}

\* classify_query that does not ask whether a database is connected
ClassifyQuery_IgnoresConnection(user_message) ==
    LET user_message_lower == StrLower(user_message)
    IN  IF \E keyword \in db_keywords :
              StrContains(user_message_lower, keyword)
        THEN "database"
        ELSE IF /\ \E keyword \in doc_keywords :
                       StrContains(user_message_lower, keyword)
                /\ Truthy(GetUploadedFiles)
        THEN "document"
        ELSE IF Truthy(GetUploadedFiles) /\ WordCount(user_message) > 3
        THEN "document"
        ELSE "general"

\* classify_query sending messages of 3 words to the documents too
ClassifyQuery_ThreeWords(user_message) ==
    LET user_message_lower == StrLower(user_message)
    IN  IF /\ \E keyword \in db_keywords :
                  StrContains(user_message_lower, keyword)
           /\ GetConnectionStatus
        THEN "database"
        ELSE IF /\ \E keyword \in doc_keywords :
                       StrContains(user_message_lower, keyword)
                /\ Truthy(GetUploadedFiles)
        THEN "document"
        ELSE IF Truthy(GetUploadedFiles) /\ WordCount(user_message) >= 3
        THEN "document"
        ELSE "general"

ClassifyQuery(user_message) ==
    LET user_message_lower == StrLower(user_message)
    IN  IF /\ \E keyword \in db_keywords :
                  StrContains(user_message_lower, keyword)
           /\ GetConnectionStatus
        THEN "database"
        ELSE IF /\ \E keyword \in doc_keywords :
                       StrContains(user_message_lower, keyword)
                /\ Truthy(GetUploadedFiles)
        THEN "document"
        ELSE IF Truthy(GetUploadedFiles) /\ WordCount(user_message) > 3
        THEN "document"
        ELSE "general"

(***************************************************************************)
(* DatabaseHandler                                                         *)
(***************************************************************************)
\* utils.validate_connection_string
ValidateConnectionString(connection_string) ==
    /\ connection_string # ""
    /\ \/ StrStartsWith(connection_string, "postgresql://")
       \/ StrStartsWith(connection_string, "postgres://")

\* pandas DataFrame.empty
DataFrameEmpty(df) == Len(df.rows) = 0 \/ Len(df.columns) = 0

\* execute_sql_query looking for SELECT anywhere in the statement
ExecuteSqlQuery_SelectAnywhere(query, ex) ==
    IF engine = None
    THEN [value |-> NoneObj, sent |-> {}]
    ELSE LET stripped == StrStrip(query)
         IN  IF ~StrContains(StrUpper(stripped), "SELECT")
             THEN [value |-> NoneObj, sent |-> {}]
             ELSE IF ~Reachable(engine)
             THEN [value |-> NoneObj, sent |-> {}]
             ELSE IF ex.kind = "SQLAlchemyError"
             THEN [value |-> NoneObj,
                   sent |-> {[statement |-> stripped, answer |-> ex]}]
             ELSE [value |-> ex.df,
                   sent |-> {[statement |-> stripped, answer |-> ex]}]

\* DatabaseHandler.execute_sql_query: the value returned and the statements
\* sent to the relational store, when the store answers with outcome ex
ExecuteSqlQuery(query, ex) ==
    IF engine = None
    THEN [value |-> NoneObj, sent |-> {}]
    ELSE LET stripped == StrStrip(query)
         IN  IF ~StrStartsWith(StrUpper(stripped), "SELECT")
             THEN [value |-> NoneObj, sent |-> {}]
             ELSE IF ~Reachable(engine)
             THEN [value |-> NoneObj, sent |-> {}]
             ELSE IF ex.kind = "SQLAlchemyError"
             THEN [value |-> NoneObj,
                   sent |-> {[statement |-> stripped, answer |-> ex]}]
             ELSE [value |-> ex.df,
                   sent |-> {[statement |-> stripped, answer |-> ex]}]

\* outcomes of the statements _enhance_question_with_context sends over
\* its own connection: the connection fails, the category query fails (no
\* such column), a sample query fails, the sample queries find nothing, or
\* they find names
EnrichmentOutcomes ==
    {"connect_error", "category_error", "sample_error", "no_samples",
     "gathered"}

\* the terms _enhance_question_with_context looks for in the question
search_terms ==
    <<"lamp", "light", "desk", "chair", "computer", "phone", "coffee", "mug",
      "table", "monitor", "keyboard">>

\* ', '.join(parts) and ' '.join(parts)
RECURSIVE StrJoin(_, _)
StrJoin(sep, parts) ==
    IF parts = <<>> THEN ""
    ELSE IF Len(parts) = 1 THEN Head(parts)
    ELSE Head(parts) \o sep \o StrJoin(sep, Tail(parts))

\* the instructions _enhance_question_with_context appends to every question
sql_instructions ==
    "Important: When searching for product types or items, search the 'name' column using ILIKE for partial matches, not the 'category' column. For example:\n- To find items with 'desk': SELECT * FROM products WHERE name ILIKE '%desk%'\n- To find items with 'lamp': SELECT * FROM products WHERE name ILIKE '%lamp%'\n- Categories are broad groups like 'Furniture', 'Electronics', 'Office Supplies'\n- Product names contain specific items like 'Desk Lamp', 'Standing Desk', 'Coffee Mug'"

\* term.lower() of every search term
search_terms_lower ==
    [i \in 1..Len(search_terms) |-> StrLower(search_terms[i])]

\* the sentences about the terms found in question_lower, the question in
\* lower case, from the i-th term on and up to the first sample query that
\* fails
RECURSIVE SampleSentences(_, _, _)
SampleSentences(i, question_lower, en) ==
    IF i > Len(search_terms) THEN <<>>
    ELSE IF ~StrContains(question_lower, search_terms_lower[i])
    THEN SampleSentences(i + 1, question_lower, en)
    ELSE IF en = "sample_error" THEN <<>>
    ELSE (IF en = "no_samples" THEN <<>>
          ELSE <<"Products with '" \o search_terms[i] \o "' in name: "
                 \o StrJoin(", ", <<"Desk Lamp">>) \o ".">>)
         \o SampleSentences(i + 1, question_lower, en)

\* the context _enhance_question_with_context gathered when it leaves its
\* try block, by its end or by an exception
ContextInfo(question, en) ==
    IF engine = None \/ ~Reachable(engine) \/ en = "connect_error"
    THEN <<>>
    ELSE IF \A i \in 1..Len(available_tables) :
               StrLower(available_tables[i]) # "products"
    THEN <<>>
    ELSE IF en = "category_error"
    THEN <<>>
    ELSE <<"The products table has these categories: "
           \o StrJoin(", ", <<"Furniture", "Electronics">>) \o ".">>
         \o SampleSentences(1, StrLower(question), en)

\* _enhance_question_with_context letting the failure of a statement out
EnhanceQuestionWithContext_Propagates(question, en) ==
    IF /\ engine # None
       /\ \/ ~Reachable(engine)
          \/ en \in {"connect_error", "category_error", "sample_error"}
    THEN [raised |-> TRUE, value |-> None]
    ELSE [raised |-> FALSE,
          value |-> question \o "\n\nContext: "
                    \o StrJoin(" ", ContextInfo(question, en))
                    \o "\n\n" \o sql_instructions]

\* DatabaseHandler._enhance_question_with_context, when its statements end
\* with outcome en: an exception raised or the question returned
EnhanceQuestionWithContext(question, en) ==
    [raised |-> FALSE,
     value |-> question \o "\n\nContext: "
               \o StrJoin(" ", ContextInfo(question, en))
               \o "\n\n" \o sql_instructions]

\* DatabaseHandler.natural_language_to_sql, when the enrichment ends with
\* outcome en, the NL-to-SQL engine answers with outcome tr and the
\* relational store with outcome ex
NaturalLanguageToSql(question, en, tr, ex) ==
    IF sql_database = None
    THEN [raised |-> FALSE, value |-> NoneObj, sent |-> {},
          reported |-> None, asked |-> None]
    ELSE LET enhanced_question == EnhanceQuestionWithContext(question, en)
         IN  IF enhanced_question.raised
             THEN [raised |-> TRUE, value |-> NoneObj, sent |-> {},
                   reported |-> None, asked |-> None]
             ELSE IF tr.kind = "SQLAlchemyError"
             THEN [raised |-> FALSE, value |-> NoneObj, sent |-> {},
                   reported |-> None, asked |-> enhanced_question.value]
             ELSE IF tr.kind = "Exception"
             THEN [raised |-> TRUE, value |-> NoneObj, sent |-> {},
                   reported |-> None, asked |-> enhanced_question.value]
             ELSE LET sql_query ==
                          DictGet(tr.metadata, "sql_query",
                                  "Query not available")
                  IN  IF sql_query # "" /\ sql_query # "Query not available"
                      THEN LET df == ExecuteSqlQuery(sql_query, ex)
                           IN  [raised |-> FALSE,
                                value |-> <<sql_query, df.value>>,
                                sent |-> df.sent, reported |-> sql_query,
                                asked |-> enhanced_question.value]
                      ELSE [raised |-> FALSE,
                            value |-> <<None, DataFrame(<<"Response">>,
                                                        <<<<tr.text>>>>)>>,
                            sent |-> {}, reported |-> None,
                            asked |-> enhanced_question.value]

(***************************************************************************)
(* ChatEngine: the three pipelines                                         *)
(***************************************************************************)
\* _generate_database_response announcing a preview from 10 rows on
GenerateDatabaseResponse_PreviewAtTen(question, data, sql_query) ==
    IF data = NoneObj \/ DataFrameEmpty(data)
    THEN "The query executed successfully but returned no results."
    ELSE LET num_rows == Len(data.rows)
             num_cols == Len(data.columns)
             first == IF num_rows = 1
                      THEN "I found 1 record with " \o ToString(num_cols)
                           \o " columns."
                      ELSE "I found " \o ToString(num_rows)
                           \o " records with " \o ToString(num_cols)
                           \o " columns."
         IN  IF num_rows < 10 /\ num_cols <= 5
             THEN first \o " " \o "\nHere are the results:"
             ELSE IF num_rows >= 10
             THEN first \o " " \o "\nShowing first 10 out of "
                  \o ToString(num_rows) \o " records:"
             ELSE first

\* ChatEngine._generate_database_response
GenerateDatabaseResponse(question, data, sql_query) ==
    IF data = NoneObj \/ DataFrameEmpty(data)
    THEN "The query executed successfully but returned no results."
    ELSE LET num_rows == Len(data.rows)
             num_cols == Len(data.columns)
             first == IF num_rows = 1
                      THEN "I found 1 record with " \o ToString(num_cols)
                           \o " columns."
                      ELSE "I found " \o ToString(num_rows)
                           \o " records with " \o ToString(num_cols)
                           \o " columns."
         IN  IF num_rows <= 10 /\ num_cols <= 5
             THEN first \o " " \o "\nHere are the results:"
             ELSE IF num_rows > 10
             THEN first \o " " \o "\nShowing first 10 out of "
                  \o ToString(num_rows) \o " records:"
             ELSE first

\* ChatEngine.process_database_query: the result and the statements sent
ProcessDatabaseQuery(user_message, en, tr, ex) ==
    IF ~GetConnectionStatus
    THEN [result |-> [response |-> "No database connection. Please connect to a database first.",
                      sql_query |-> None, data |-> NoneObj, type |-> "error"],
          sent |-> {}, reported |-> None, asked |-> None]
    ELSE LET nl == NaturalLanguageToSql(user_message, en, tr, ex)
         IN  IF nl.raised
             THEN [result |-> [response |-> "Error processing database query: " \o ErrorText,
                               sql_query |-> None, data |-> NoneObj,
                               type |-> "error"],
                   sent |-> nl.sent, reported |-> nl.reported,
                            asked |-> nl.asked]
             ELSE IF nl.value = NoneObj
             THEN [result |-> [response |-> "Failed to process the database query. Please try rephrasing your question.",
                               sql_query |-> None, data |-> NoneObj,
                               type |-> "error"],
                   sent |-> nl.sent, reported |-> nl.reported,
                            asked |-> nl.asked]
             ELSE LET sql_query == nl.value[1]
                      data == nl.value[2]
                  IN  IF data = NoneObj \/ DataFrameEmpty(data)
                      THEN [result |-> [response |-> "The query executed successfully but returned no results.",
                                        sql_query |-> sql_query,
                                        data |-> NoneObj, type |-> "database"],
                            sent |-> nl.sent, reported |-> nl.reported,
                            asked |-> nl.asked]
                      ELSE [result |-> [response |-> GenerateDatabaseResponse(user_message, data, sql_query),
                                        sql_query |-> sql_query, data |-> data,
                                        type |-> "database",
                                        query |-> user_message],
                            sent |-> nl.sent, reported |-> nl.reported,
                            asked |-> nl.asked]

\* ChatEngine.process_general_query, when llm.complete answers with co
ProcessGeneralQuery(user_message, co) ==
    IF co.kind = "Exception"
    THEN [response |-> "Error processing general query: " \o ErrorText,
          type |-> "error"]
    ELSE [response |-> co.text, type |-> "general", query |-> user_message]

\* the system message of process_general_query
system_message ==
    "You are a helpful AI assistant. You can help users with general questions, but you specialize in helping them work with documents and databases. If users ask about documents or databases, suggest they upload documents or connect to a database first."

\* the number of stored messages process_general_query reads, messages[-10:]
RECENT_MESSAGES == 10

\* role and content of the stored messages whose role is user or assistant
RECURSIVE RoleAndContent(_)
RoleAndContent(msgs) ==
    IF msgs = <<>> THEN <<>>
    ELSE (IF Head(msgs).role \in {"user", "assistant"}
          THEN <<[role |-> Head(msgs).role, content |-> Head(msgs).content]>>
          ELSE <<>>)
         \o RoleAndContent(Tail(msgs))

\* the list `messages` process_general_query builds from the store it finds
GeneralContext(store, user_message) ==
    <<[role |-> "system", content |-> system_message]>>
    \o RoleAndContent(LastN(store, RECENT_MESSAGES))
    \o <<[role |-> "user", content |-> user_message]>>

\* what process_general_query hands to the language model,
\* llm.complete(user_message): the prompt alone, one user entry
CompletionInput(store, user_message) ==
    <<[role |-> "user", content |-> user_message]>>

\* source attributions the retrieval capability can report over an index
SourceNodes(index) ==
    {[metadata |-> [file_name |-> d.file_name], score |-> sc] :
        d \in index.documents, sc \in {3, 9}}

\* outcomes of query_engine.query(user_message)
RetrievalOutcomes(index) ==
    {[kind |-> "Exception"],
     [kind |-> "response", text |-> AnswerText, source_nodes |-> <<>>]}
    \cup {[kind |-> "response", text |-> AnswerText, source_nodes |-> <<n>>] :
            n \in SourceNodes(index)}
    \cup {[kind |-> "response", text |-> AnswerText,
           source_nodes |-> <<n, m>>] :
            n \in SourceNodes(index), m \in SourceNodes(index)}

\* module constant IMPORTS_AVAILABLE of document_handler.py
IMPORTS_AVAILABLE == TRUE

\* DocumentHandler.get_query_engine: NoneObj or the index to query
GetQueryEngine ==
    IF ~IMPORTS_AVAILABLE THEN NoneObj
    ELSE IF document_index = NoneObj THEN NoneObj
    ELSE document_index

\* the sources list put in the order of descending score
RECURSIVE ExtractSources_SortedByScore(_)
ExtractSources_SortedByScore(source_nodes) ==
    IF source_nodes = <<>> THEN <<>>
    ELSE LET best == CHOOSE i \in 1..Len(source_nodes) :
                         \A j \in 1..Len(source_nodes) :
                             \/ source_nodes[i].score > source_nodes[j].score
                             \/ /\ source_nodes[i].score = source_nodes[j].score
                                /\ i <= j
         IN  <<[file_name |-> DictGet(source_nodes[best].metadata,
                                      "file_name", "Unknown"),
                score |-> source_nodes[best].score]>>
             \o ExtractSources_SortedByScore(
                    [k \in 1..(Len(source_nodes) - 1) |->
                        IF k < best THEN source_nodes[k]
                        ELSE source_nodes[k + 1]])

\* the sources list built from response.source_nodes
RECURSIVE ExtractSources(_)
ExtractSources(source_nodes) ==
    IF source_nodes = <<>> THEN <<>>
    ELSE LET source_node == Head(source_nodes)
         IN  (IF "metadata" \in DOMAIN source_node
              THEN <<[file_name |-> DictGet(source_node.metadata,
                                            "file_name", "Unknown"),
                      score |-> DictGet(source_node, "score", 0)]>>
              ELSE <<>>)
             \o ExtractSources(Tail(source_nodes))

\* process_document_query without the check for a missing index: the query
\* on None raises and the except clause answers
ProcessDocumentQuery_NoIndexCheck(user_message, re) ==
    IF GetQueryEngine = NoneObj \/ re.kind = "Exception"
    THEN [response |-> "Error processing document query: " \o ErrorText,
          sources |-> <<>>, type |-> "error"]
    ELSE [response |-> re.text, sources |-> ExtractSources(re.source_nodes),
          type |-> "document", query |-> user_message]

\* ChatEngine.process_document_query, when the query engine answers with re
ProcessDocumentQuery(user_message, re) ==
    IF GetQueryEngine = NoneObj
    THEN [response |-> "No documents are currently uploaded. Please upload some documents first.",
          sources |-> <<>>, type |-> "error"]
    ELSE IF re.kind = "Exception"
    THEN [response |-> "Error processing document query: " \o ErrorText,
          sources |-> <<>>, type |-> "error"]
    ELSE [response |-> re.text, sources |-> ExtractSources(re.source_nodes),
          type |-> "document", query |-> user_message]

(***************************************************************************)
(* token_tracker.py: the price table.  A price is an integer number of     *)
(* 0.00001 dollar per 1000 tokens (0.0015 dollar is 150), so a cost is an   *)
(* integer number of 0.00000001 dollar and the arithmetic is exact.         *)
(***************************************************************************)
\* token_tracker.get_fallback_pricing
GetFallbackPricing ==
    ("gpt-4" :> [input |-> 3000, output |-> 6000])
    @@ ("gpt-4-turbo" :> [input |-> 1000, output |-> 3000])
    @@ ("gpt-4-turbo-preview" :> [input |-> 1000, output |-> 3000])
    @@ ("gpt-4o" :> [input |-> 500, output |-> 1500])
    @@ ("gpt-4o-mini" :> [input |-> 15, output |-> 60])
    @@ ("gpt-3.5-turbo" :> [input |-> 150, output |-> 200])
    @@ ("gpt-3.5-turbo-0125" :> [input |-> 50, output |-> 150])
    @@ ("gpt-3.5-turbo-instruct" :> [input |-> 150, output |-> 200])
    @@ ("text-embedding-ada-002" :> [input |-> 10, output |-> 0])
    @@ ("text-embedding-3-small" :> [input |-> 2, output |-> 0])
    @@ ("text-embedding-3-large" :> [input |-> 13, output |-> 0])

\* JSON values of the configuration file: a string, or an object
JsonStr(text) == [type |-> "str", value |-> text]
JsonDict(fields) == [type |-> "dict", value |-> fields]

\* config/openai_pricing.json with metadata and two models, the default
\* model among them
ConfigWithDefault ==
    [kind |-> "json",
     data |-> ("source" :> JsonStr("manual"))
              @@ ("gpt-4o" :> JsonDict([input |-> 400, output |-> 1200]))
              @@ ("gpt-3.5-turbo" :> JsonDict([input |-> 100, output |-> 300]))]

\* with metadata and one model, the default model not among them
ConfigWithoutDefault ==
    [kind |-> "json",
     data |-> ("last_updated" :> JsonStr("2025-07-01"))
              @@ ("gpt-4o" :> JsonDict([input |-> 400, output |-> 1200]))]

\* with no entry that has both prices
ConfigWithoutPrices ==
    [kind |-> "json",
     data |-> ("source" :> JsonStr("manual"))
              @@ ("gpt-4o" :> JsonDict([input |-> 400]))]

\* config/openai_pricing.json as load_pricing_config can find it: absent,
\* unreadable or not JSON, and parsed contents
ConfigFiles ==
    {[kind |-> "missing"], [kind |-> "malformed"],
     ConfigWithDefault, ConfigWithoutDefault, ConfigWithoutPrices}

\* the configuration file when the module is imported: the repository ships
\* none
ConfigAtImport == [kind |-> "missing"]

\* token_tracker.load_pricing_config
LoadPricingConfig(config) ==
    IF config.kind = "json"
    THEN LET data == config.data
             pricing ==
                 [k \in {k \in DOMAIN data :
                            /\ data[k].type = "dict"
                            /\ "input" \in DOMAIN data[k].value
                            /\ "output" \in DOMAIN data[k].value}
                    |-> data[k].value]
         IN  IF DOMAIN pricing # {} THEN pricing ELSE GetFallbackPricing
    ELSE GetFallbackPricing

\* calculate_cost billing the input tokens at the output price and back
CalculateCost_SwappedPrices(input_tokens, output_tokens, model) ==
    LET m == IF model \notin DOMAIN OPENAI_PRICING
             THEN "gpt-3.5-turbo" ELSE model
    IN  IF m \notin DOMAIN OPENAI_PRICING
        THEN [raised |-> TRUE, value |-> 0]
        ELSE LET pricing == OPENAI_PRICING[m]
             IN  [raised |-> FALSE,
                  value |-> input_tokens * pricing.output
                            + output_tokens * pricing.input]

\* TokenTracker.calculate_cost: KeyError raised or the cost returned
CalculateCost(input_tokens, output_tokens, model) ==
    LET m == IF model \notin DOMAIN OPENAI_PRICING
             THEN "gpt-3.5-turbo" ELSE model
    IN  IF m \notin DOMAIN OPENAI_PRICING
        THEN [raised |-> TRUE, value |-> 0]
        ELSE LET pricing == OPENAI_PRICING[m]
             IN  [raised |-> FALSE,
                  value |-> input_tokens * pricing.input
                            + output_tokens * pricing.output]

\* outcomes of tiktoken for the two texts of one request: it raises, or it
\* encodes them to the given numbers of tokens
TokenizerOutcomes ==
    {[kind |-> "Exception"], [kind |-> "encoded", input |-> 1, output |-> 2]}

\* TokenTracker.count_tokens, when tiktoken encodes the text to n tokens
CountTokens(text, tk, n) ==
    IF tk.kind = "Exception" THEN Len(text) \div 4 ELSE n

(***************************************************************************)
(* Initial state: the handlers and the session state after construction.   *)
(***************************************************************************)
Init ==
    /\ messages = <<>>
    /\ clock = 0
    /\ appended = 0
    /\ midMessages = <<>>
    /\ engine = None
    /\ sql_database = None
    /\ connection_status = FALSE
    /\ available_tables = <<>>
    /\ table_schemas = EmptyDict
    /\ uploaded_files = EmptyDict
    /\ document_index = NoneObj
    /\ call = [op |-> "init"]
    /\ route = None
    /\ executed = {}
    /\ translated = None
    /\ asked = None
    /\ failure = None
    /\ token_usage = [total_tokens |-> 0, total_cost |-> 0,
                      session_tokens |-> 0, session_cost |-> 0,
                      requests |-> <<>>]
    /\ OPENAI_PRICING = LoadPricingConfig(ConfigAtImport)
    /\ history = <<>>
    /\ manager = [pc |-> "menu", caller |-> None, docker |-> None,
                  container |-> None, results |-> <<>>]
    /\ ret = EmptyDict

chatVars == <<messages, clock, appended, midMessages, route>>
dbVars ==
    <<engine, sql_database, connection_status, available_tables,
      table_schemas>>
docVars == <<uploaded_files, document_index>>
tokenVars == <<token_usage, OPENAI_PRICING, history>>

(***************************************************************************)
(* ChatEngine operations                                                   *)
(***************************************************************************)
\* process_message recording the user's text before it looks at it
ProcessMessageEmpty_RecordsInput(user_message) ==
    /\ StrStrip(user_message) = ""
    /\ clock + 1 <= MaxAppends
    /\ messages' = AddMessage(messages, "user", user_message, EmptyDict,
                              clock + 1)
    /\ clock' = clock + 1
    /\ appended' = appended + 1
    /\ UNCHANGED manager
    /\ call' = [op |-> "process_message", user_message |-> user_message]
    /\ ret' = [response |-> "Please enter a message.", type |-> "error"]
    /\ route' = None
    /\ midMessages' = <<>>
    /\ executed' = {}
    /\ translated' = None
    /\ asked' = None
    /\ failure' = None
    /\ UNCHANGED <<dbVars, docVars, tokenVars>>

\* ChatEngine.process_message on empty or whitespace-only input
ProcessMessageEmpty(user_message) ==
    /\ StrStrip(user_message) = ""
    /\ UNCHANGED manager
    /\ call' = [op |-> "process_message", user_message |-> user_message]
    /\ ret' = [response |-> "Please enter a message.", type |-> "error"]
    /\ route' = None
    /\ midMessages' = <<>>
    /\ executed' = {}
    /\ translated' = None
    /\ asked' = None
    /\ failure' = None
    /\ UNCHANGED <<messages, clock, appended, dbVars, docVars, tokenVars>>

\* the outcomes one pass through the database pipeline can meet: every
\* answer of the NL-to-SQL engine and of the relational store after an
\* enrichment that gathered its context, and every outcome of the
\* enrichment before a statement that is translated and executed
DatabaseOutcomes ==
    {[en |-> "gathered", tr |-> tr, ex |-> ex] :
        tr \in TranslationOutcomes, ex \in ExecutionOutcomes}
    \cup {[en |-> en,
           tr |-> [kind |-> "response", text |-> AnswerText,
                   metadata |-> [sql_query |-> "SELECT * FROM customers"]],
           ex |-> [kind |-> "rows",
                   df |-> DataFrame(<<"id", "name">>,
                                    <<<<"1", "a">>, <<"2", "b">>>>)]] :
            en \in EnrichmentOutcomes}

\* the backend outcomes the dispatch of process_message can meet
DispatchOutcomes(query_type) ==
    IF query_type = "document"
    THEN {[re |-> re] : re \in
            IF document_index = NoneObj THEN {[kind |-> "Exception"]}
            ELSE RetrievalOutcomes(document_index)}
    ELSE IF query_type = "database"
    THEN DatabaseOutcomes
    ELSE {[co |-> co] : co \in CompletionOutcomes}

\* ChatEngine.process_message on any other input: the dispatch
Dispatch(query_type, user_message, o) ==
    IF query_type = "document"
    THEN [result |-> ProcessDocumentQuery(user_message, o.re), sent |-> {},
          reported |-> None, asked |-> None]
    ELSE IF query_type = "database"
    THEN ProcessDatabaseQuery(user_message, o.en, o.tr, o.ex)
    ELSE [result |-> ProcessGeneralQuery(user_message, o.co), sent |-> {},
          reported |-> None, asked |-> None]

\* the backend whose failure the dispatch met: the retrieval capability,
\* the NL-to-SQL engine, the relational store or the language model
BackendFailure(query_type, o, d) ==
    IF query_type = "document"
    THEN IF GetQueryEngine # NoneObj /\ o.re.kind = "Exception"
         THEN "document" ELSE None
    ELSE IF query_type = "database"
    THEN IF ~GetConnectionStatus THEN None
         ELSE IF o.tr.kind # "response" THEN "translation"
         ELSE IF \E e \in d.sent : e.answer.kind = "SQLAlchemyError"
         THEN "execution" ELSE None
    ELSE IF o.co.kind = "Exception" THEN "completion" ELSE None

ProcessMessage(user_message) ==
    /\ StrStrip(user_message) # ""
    /\ clock + 2 <= MaxAppends
    /\ LET afterUser ==
               AddMessage(messages, "user", user_message, EmptyDict, clock + 1)
           query_type == ClassifyQuery(user_message)
       IN  \E o \in DispatchOutcomes(query_type) :
             \E d \in {Dispatch(query_type, user_message, o)} :
                 /\ midMessages' = afterUser
                 /\ route' = query_type
                 /\ messages' = AddMessage(afterUser, "assistant",
                                           d.result.response, d.result,
                                           clock + 2)
                 /\ executed' = d.sent
                 /\ translated' = d.reported
                 /\ asked' = d.asked
                 /\ failure' = BackendFailure(query_type, o, d)
                 /\ ret' = d.result
    /\ clock' = clock + 2
    /\ appended' = appended + 2
    /\ UNCHANGED manager
    /\ call' = [op |-> "process_message", user_message |-> user_message]
    /\ UNCHANGED <<dbVars, docVars, tokenVars>>

\* ChatEngine.process_database_query called on its own
ProcessDatabaseQueryCall(user_message, en, tr, ex) ==
    \E r \in {ProcessDatabaseQuery(user_message, en, tr, ex)} :
        /\ UNCHANGED manager
        /\ call' = [op |-> "process_database_query",
                    user_message |-> user_message, enrichment |-> en]
        /\ ret' = r.result
        /\ executed' = r.sent
        /\ translated' = r.reported
        /\ asked' = r.asked
        /\ failure' = BackendFailure("database", [tr |-> tr, ex |-> ex], r)
        /\ route' = None
        /\ midMessages' = <<>>
        /\ UNCHANGED <<messages, clock, appended, dbVars, docVars, tokenVars>>

\* ChatEngine.classify_query called on its own
ClassifyQueryCall(user_message) ==
    /\ UNCHANGED manager
    /\ call' = [op |-> "classify_query", user_message |-> user_message]
    /\ ret' = [value |-> ClassifyQuery(user_message)]
    /\ route' = ClassifyQuery(user_message)
    /\ midMessages' = <<>>
    /\ executed' = {}
    /\ translated' = None
    /\ asked' = None
    /\ failure' = None
    /\ UNCHANGED <<messages, clock, appended, dbVars, docVars, tokenVars>>

\* ChatEngine.add_message called on its own
AddMessageCall(role, content) ==
    /\ clock + 1 <= MaxAppends
    /\ messages' = AddMessage(messages, role, content, EmptyDict, clock + 1)
    /\ clock' = clock + 1
    /\ appended' = appended + 1
    /\ UNCHANGED manager
    /\ call' = [op |-> "add_message", role |-> role, content |-> content]
    /\ ret' = EmptyDict
    /\ route' = None
    /\ midMessages' = <<>>
    /\ executed' = {}
    /\ translated' = None
    /\ asked' = None
    /\ failure' = None
    /\ UNCHANGED <<dbVars, docVars, tokenVars>>

\* clear_conversation resetting the usage accounting with the store
ClearConversation_ResetsUsage ==
    /\ messages' = <<>>
    /\ appended' = 0
    /\ UNCHANGED manager
    /\ call' = [op |-> "clear_conversation"]
    /\ ret' = EmptyDict
    /\ route' = None
    /\ midMessages' = <<>>
    /\ executed' = {}
    /\ translated' = None
    /\ asked' = None
    /\ failure' = None
    /\ token_usage' = [total_tokens |-> 0, total_cost |-> 0,
                       session_tokens |-> 0, session_cost |-> 0,
                       requests |-> <<>>]
    /\ UNCHANGED <<clock, dbVars, docVars, OPENAI_PRICING, history>>

\* ChatEngine.clear_conversation
ClearConversation ==
    /\ messages' = <<>>
    /\ appended' = 0
    /\ UNCHANGED manager
    /\ call' = [op |-> "clear_conversation"]
    /\ ret' = EmptyDict
    /\ route' = None
    /\ midMessages' = <<>>
    /\ executed' = {}
    /\ translated' = None
    /\ asked' = None
    /\ failure' = None
    /\ UNCHANGED <<clock, dbVars, docVars, tokenVars>>

(***************************************************************************)
(* DatabaseHandler operations                                              *)
(***************************************************************************)
noChat == /\ route' = None
          /\ midMessages' = <<>>
          /\ executed' = {}
          /\ translated' = None
          /\ asked' = None
          /\ failure' = None
          /\ UNCHANGED <<messages, clock, appended>>

\* outcomes of SQLDatabase(self.engine), which reflects the schema
ReflectionOutcomes == {"ok", "SQLAlchemyError"}

\* the characters of table names, in the order of their code points
OrderedChars == "._abcdefghijklmnopqrstuvwxyz"

\* ord(c)
CharRank(c) == CHOOSE i \in 1..Len(OrderedChars) : CharAt(OrderedChars, i) = c

\* a < b for two str
RECURSIVE StrLess(_, _)
StrLess(a, b) ==
    IF b = "" THEN FALSE
    ELSE IF a = "" THEN TRUE
    ELSE IF Head(a) # Head(b) THEN CharRank(Head(a)) < CharRank(Head(b))
    ELSE StrLess(Tail(a), Tail(b))

\* list.sort() of a list of distinct str
RECURSIVE SortStrings(_)
SortStrings(names) ==
    IF names = <<>> THEN <<>>
    ELSE LET least == CHOOSE i \in 1..Len(names) :
                          \A j \in 1..Len(names) :
                              j = i \/ StrLess(names[i], names[j])
         IN  <<names[least]>>
             \o SortStrings([k \in 1..(Len(names) - 1) |->
                                IF k < least THEN names[k] ELSE names[k + 1]])

\* schemas _load_table_information skips
SystemSchemas == {"information_schema", "pg_catalog", "pg_toast"}

\* full_table_name of _load_table_information
FullTableName(entry) ==
    IF entry.schema # "public" THEN entry.schema \o "." \o entry.table
    ELSE entry.table

\* the entries of the schemas _load_table_information does not skip
RECURSIVE UserEntries(_)
UserEntries(entries) ==
    IF entries = <<>> THEN <<>>
    ELSE (IF Head(entries).schema \in SystemSchemas THEN <<>>
          ELSE <<Head(entries)>>)
         \o UserEntries(Tail(entries))

\* DatabaseHandler._load_table_information over engine eng, when the
\* inspection ends with outcome lo: the table list and the schemas after
\* the call, tables and schemas being what they were before it.  An
\* exception leaves what was assigned before it was raised.
LoadTableInformation(eng, tables, schemas, lo) ==
    IF eng = None \/ ~Reachable(eng) \/ lo.kind = "inspect_error"
    THEN [available_tables |-> tables, table_schemas |-> schemas]
    ELSE LET entries == UserEntries(lo.entries)
         IN  IF lo.kind = "columns_error" /\ entries # <<>>
             THEN [available_tables |-> <<FullTableName(Head(entries))>>,
                   table_schemas |-> EmptyDict]
             ELSE [available_tables |->
                       SortStrings([i \in 1..Len(entries) |->
                                      FullTableName(entries[i])]),
                   table_schemas |->
                       [name \in {FullTableName(entries[i]) :
                                     i \in 1..Len(entries)} |->
                           LET e == CHOOSE e \in {entries[i] :
                                                    i \in 1..Len(entries)} :
                                        FullTableName(e) = name
                           IN  [schema |-> e.schema, table |-> e.table,
                                columns |-> e.columns]]]

\* DatabaseHandler.connect_to_database, when SQLDatabase(self.engine) ends
\* with outcome reflection and the inspection with outcome lo
ConnectToDatabase(connection_string, reflection, lo) ==
    /\ UNCHANGED manager
    /\ call' = [op |-> "connect_to_database",
                connection_string |-> connection_string, load |-> lo]
    /\ IF ~ValidateConnectionString(connection_string)
       THEN /\ ret' = [value |-> FALSE]
            /\ UNCHANGED dbVars
       ELSE IF ~Reachable(connection_string)
       THEN \* create_engine succeeded, engine.connect() raised
            /\ engine' = connection_string
            /\ ret' = [value |-> FALSE]
            /\ UNCHANGED <<sql_database, connection_status, available_tables,
                           table_schemas>>
       ELSE IF reflection = "SQLAlchemyError"
       THEN \* the connection test passed, SQLDatabase(self.engine) raised
            /\ engine' = connection_string
            /\ ret' = [value |-> FALSE]
            /\ UNCHANGED <<sql_database, connection_status, available_tables,
                           table_schemas>>
       ELSE /\ engine' = connection_string
            /\ sql_database' = connection_string
            /\ \E loaded \in {LoadTableInformation(connection_string,
                                   available_tables, table_schemas, lo)} :
                  /\ available_tables' = loaded.available_tables
                  /\ table_schemas' = loaded.table_schemas
            /\ connection_status' = TRUE
            /\ ret' = [value |-> TRUE]
    /\ noChat
    /\ UNCHANGED <<docVars, tokenVars>>

\* DatabaseHandler.disconnect_from_database
DisconnectFromDatabase ==
    /\ UNCHANGED manager
    /\ call' = [op |-> "disconnect_from_database"]
    /\ engine' = None
    /\ sql_database' = None
    /\ connection_status' = FALSE
    /\ available_tables' = <<>>
    /\ table_schemas' = EmptyDict
    /\ ret' = EmptyDict
    /\ noChat
    /\ UNCHANGED <<docVars, tokenVars>>

\* DatabaseHandler.refresh_table_list, when the inspection ends with
\* outcome lo
RefreshTableList(lo) ==
    /\ UNCHANGED manager
    /\ call' = [op |-> "refresh_table_list", load |-> lo]
    /\ IF connection_status
       THEN \E loaded \in {LoadTableInformation(engine, available_tables,
                                                table_schemas, lo)} :
               /\ available_tables' = loaded.available_tables
               /\ table_schemas' = loaded.table_schemas
       ELSE UNCHANGED <<available_tables, table_schemas>>
    /\ ret' = EmptyDict
    /\ noChat
    /\ UNCHANGED <<engine, sql_database, connection_status, docVars,
                   tokenVars>>

\* DatabaseHandler.execute_sql_query called on its own
ExecuteSqlQueryCall(query, ex) ==
    LET r == ExecuteSqlQuery(query, ex)
    IN  /\ UNCHANGED manager
        /\ call' = [op |-> "execute_sql_query", query |-> query]
        /\ ret' = [value |-> r.value]
        /\ executed' = r.sent
        /\ translated' = None
        /\ asked' = None
        /\ failure' = None
        /\ route' = None
        /\ midMessages' = <<>>
        /\ UNCHANGED <<messages, clock, appended, dbVars, docVars, tokenVars>>

\* DatabaseHandler.natural_language_to_sql called on its own
NaturalLanguageToSqlCall(question, en, tr, ex) ==
    \E r \in {NaturalLanguageToSql(question, en, tr, ex)} :
        /\ UNCHANGED manager
        /\ call' = [op |-> "natural_language_to_sql", question |-> question,
                    enrichment |-> en]
        /\ ret' = [raised |-> r.raised, value |-> r.value]
        /\ executed' = r.sent
        /\ translated' = r.reported
        /\ asked' = r.asked
        /\ failure' = None
        /\ route' = None
        /\ midMessages' = <<>>
        /\ UNCHANGED <<messages, clock, appended, dbVars, docVars, tokenVars>>

(***************************************************************************)
(* DocumentHandler operations and the upload path of app.py                *)
(***************************************************************************)
\* utils.get_file_hash
GetFileHash(file_content) == "md5:" \o file_content

\* the extension utils.is_valid_file_type looks at
RECURSIVE Extension(_)
Extension(filename) ==
    IF ~StrContains(filename, ".") THEN filename
    ELSE Extension(Tail(filename))

SUPPORTED_FILE_TYPES == {"pdf", "txt", "docx"}
MAX_FILE_SIZE_MB == 10

\* DocumentHandler.validate_file: is_valid of the result
ValidateFile(uploaded_file) ==
    /\ StrLower(Extension(uploaded_file.name)) \in SUPPORTED_FILE_TYPES
    /\ ~(uploaded_file.size > MAX_FILE_SIZE_MB * 1024 * 1024)
    /\ ~(Cardinality(DOMAIN GetUploadedFiles) >= MAX_DOCUMENTS)

\* dict with d[key] = value
DictSet(d, key, value) ==
    [k \in DOMAIN d \cup {key} |-> IF k = key THEN value ELSE d[k]]

\* dict without the keys in gone
DictDel(d, gone) == [k \in DOMAIN d \ gone |-> d[k]]

\* process_document building a new index from every document
IndexInsert_Replaces(index, document) == [documents |-> {document}]

\* the index after process_document inserted the document
IndexInsert(index, document) ==
    IF index = NoneObj THEN [documents |-> {document}]
    ELSE [documents |-> index.documents \cup {document}]

\* process_uploaded_file looking for the file's name in the catalog, not
\* for the hash of its bytes
ProcessUploadedFile_DedupByName(uploaded_file, saved, processing) ==
    LET file_hash == GetFileHash(uploaded_file.content)
        metadata == [original_name |-> uploaded_file.name,
                     file_hash |-> file_hash,
                     size |-> uploaded_file.size,
                     processed |-> FALSE]
    IN  /\ UNCHANGED manager
        /\ call' = [op |-> "process_uploaded_file", file |-> uploaded_file]
        /\ IF \E k \in DOMAIN GetUploadedFiles :
                 GetUploadedFiles[k].original_name = uploaded_file.name
           THEN /\ ret' = [outcome |-> "duplicate"]
                /\ UNCHANGED docVars
           ELSE IF ~ValidateFile(uploaded_file)
           THEN /\ ret' = [outcome |-> "invalid"]
                /\ UNCHANGED docVars
           ELSE IF ~saved
           THEN /\ ret' = [outcome |-> "not_saved"]
                /\ UNCHANGED docVars
           ELSE IF processing # "indexed" \/ ~IMPORTS_AVAILABLE
           THEN /\ uploaded_files' = DictSet(uploaded_files, file_hash, metadata)
                /\ ret' = [outcome |-> "not_processed"]
                /\ UNCHANGED document_index
           ELSE /\ uploaded_files' =
                      DictSet(uploaded_files, file_hash,
                              [metadata EXCEPT !.processed = TRUE])
                /\ document_index' =
                      IndexInsert(document_index,
                                  [file_hash |-> file_hash,
                                   file_name |-> uploaded_file.name])
                /\ ret' = [outcome |-> "processed"]
        /\ noChat
        /\ UNCHANGED <<dbVars, tokenVars>>

\* app.process_uploaded_file: duplicate check, validate_file,
\* save_uploaded_file, process_document
ProcessUploadedFile(uploaded_file, saved, processing) ==
    LET file_hash == GetFileHash(uploaded_file.content)
        metadata == [original_name |-> uploaded_file.name,
                     file_hash |-> file_hash,
                     size |-> uploaded_file.size,
                     processed |-> FALSE]
    IN  /\ UNCHANGED manager
        /\ call' = [op |-> "process_uploaded_file", file |-> uploaded_file]
        /\ IF file_hash \in DOMAIN GetUploadedFiles
           THEN /\ ret' = [outcome |-> "duplicate"]
                /\ UNCHANGED docVars
           ELSE IF ~ValidateFile(uploaded_file)
           THEN /\ ret' = [outcome |-> "invalid"]
                /\ UNCHANGED docVars
           ELSE IF ~saved
           THEN /\ ret' = [outcome |-> "not_saved"]
                /\ UNCHANGED docVars
           ELSE IF processing # "indexed" \/ ~IMPORTS_AVAILABLE
           THEN /\ uploaded_files' = DictSet(uploaded_files, file_hash, metadata)
                /\ ret' = [outcome |-> "not_processed"]
                /\ UNCHANGED document_index
           ELSE /\ uploaded_files' =
                      DictSet(uploaded_files, file_hash,
                              [metadata EXCEPT !.processed = TRUE])
                /\ document_index' =
                      IndexInsert(document_index,
                                  [file_hash |-> file_hash,
                                   file_name |-> uploaded_file.name])
                /\ ret' = [outcome |-> "processed"]
        /\ noChat
        /\ UNCHANGED <<dbVars, tokenVars>>

\* delete_document dropping the index with the last document of the catalog
DeleteDocument_DropsIndex(file_hash, removed) ==
    /\ UNCHANGED manager
    /\ call' = [op |-> "delete_document", file_hash |-> file_hash]
    /\ IF file_hash \notin DOMAIN uploaded_files \/ ~removed
       THEN /\ ret' = [value |-> FALSE]
            /\ UNCHANGED <<uploaded_files, document_index>>
       ELSE /\ uploaded_files' = DictDel(uploaded_files, {file_hash})
            /\ document_index' =
                  IF DOMAIN uploaded_files = {file_hash} THEN NoneObj
                  ELSE document_index
            /\ ret' = [value |-> TRUE]
    /\ noChat
    /\ UNCHANGED <<dbVars, tokenVars>>

\* DocumentHandler.delete_document; removed is whether os.remove succeeded
DeleteDocument(file_hash, removed) ==
    /\ UNCHANGED manager
    /\ call' = [op |-> "delete_document", file_hash |-> file_hash]
    /\ IF file_hash \notin DOMAIN uploaded_files \/ ~removed
       THEN /\ ret' = [value |-> FALSE]
            /\ UNCHANGED uploaded_files
       ELSE /\ uploaded_files' = DictDel(uploaded_files, {file_hash})
            /\ ret' = [value |-> TRUE]
    /\ UNCHANGED document_index
    /\ noChat
    /\ UNCHANGED <<dbVars, tokenVars>>

\* DocumentHandler.clear_all_documents; gone are the entries whose
\* delete_document succeeded
ClearAllDocuments(gone) ==
    /\ UNCHANGED manager
    /\ call' = [op |-> "clear_all_documents"]
    /\ uploaded_files' = DictDel(uploaded_files, gone)
    /\ document_index' = NoneObj
    /\ ret' = [value |-> TRUE]
    /\ noChat
    /\ UNCHANGED <<dbVars, tokenVars>>

(***************************************************************************)
(* app.render_file_upload_section: the batch of files held by the upload   *)
(* widget, handed to process_uploaded_file one file after the other.       *)
(***************************************************************************)
\* validate_file letting one document more than MAX_DOCUMENTS in
ValidationResult_LimitOffByOne(catalog, uploaded_file) ==
    /\ StrLower(Extension(uploaded_file.name)) \in SUPPORTED_FILE_TYPES
    /\ ~(uploaded_file.size > MAX_FILE_SIZE_MB * 1024 * 1024)
    /\ ~(Cardinality(DOMAIN catalog) > MAX_DOCUMENTS)

\* DocumentHandler.validate_file: is_valid of the result, the uploaded-file
\* catalog being catalog
ValidationResult(catalog, uploaded_file) ==
    /\ StrLower(Extension(uploaded_file.name)) \in SUPPORTED_FILE_TYPES
    /\ ~(uploaded_file.size > MAX_FILE_SIZE_MB * 1024 * 1024)
    /\ ~(Cardinality(DOMAIN catalog) >= MAX_DOCUMENTS)

\* app.process_uploaded_file on the documents docs, a record of the
\* uploaded-file catalog and the index: the documents after the call, with
\* what the call did
UploadOne(docs, uploaded_file, saved, processing) ==
    LET file_hash == GetFileHash(uploaded_file.content)
        metadata == [original_name |-> uploaded_file.name,
                     file_hash |-> file_hash,
                     size |-> uploaded_file.size,
                     processed |-> FALSE]
    IN  IF file_hash \in DOMAIN docs.uploaded_files
        THEN [outcome |-> "duplicate", docs |-> docs]
        ELSE IF ~ValidationResult(docs.uploaded_files, uploaded_file)
        THEN [outcome |-> "invalid", docs |-> docs]
        ELSE IF ~saved
        THEN [outcome |-> "not_saved", docs |-> docs]
        ELSE IF processing # "indexed" \/ ~IMPORTS_AVAILABLE
        THEN [outcome |-> "not_processed",
              docs |-> [docs EXCEPT !.uploaded_files =
                           DictSet(docs.uploaded_files, file_hash, metadata)]]
        ELSE [outcome |-> "processed",
              docs |-> [uploaded_files |->
                            DictSet(docs.uploaded_files, file_hash,
                                    [metadata EXCEPT !.processed = TRUE]),
                        document_index |->
                            IndexInsert(docs.document_index,
                                        [file_hash |-> file_hash,
                                         file_name |-> uploaded_file.name])]]

\* the loop of render_file_upload_section over the files of the widget: one
\* record for each file, with the documents before and after its
\* process_uploaded_file call
RECURSIVE UploadBatch(_, _, _, _)
UploadBatch(docs, batch, saved, processing) ==
    IF batch = <<>> THEN <<>>
    ELSE LET r == UploadOne(docs, Head(batch), saved, processing)
         IN  <<[file |-> Head(batch), outcome |-> r.outcome,
                before |-> docs, after |-> r.docs]>>
             \o UploadBatch(r.docs, Tail(batch), saved, processing)

\* app.render_file_upload_section with the files batch in the widget; saved
\* and processing are the outcomes of save_uploaded_file and of
\* process_document for the files that reach them
RenderFileUploadSection(batch, saved, processing) ==
    /\ \E steps \in {UploadBatch([uploaded_files |-> uploaded_files,
                                  document_index |-> document_index],
                                 batch, saved, processing)} :
          /\ uploaded_files' = steps[Len(steps)].after.uploaded_files
          /\ document_index' = steps[Len(steps)].after.document_index
          /\ ret' = [steps |-> steps]
    /\ UNCHANGED manager
    /\ call' = [op |-> "render_file_upload_section", batch |-> batch]
    /\ noChat
    /\ UNCHANGED <<dbVars, tokenVars>>

(***************************************************************************)
(* TokenTracker operations                                                 *)
(***************************************************************************)
\* the number of requests track_request keeps, scaled down from 100
MAX_REQUESTS == 2
\* track_request calls that create a record in one behaviour
MaxTracked == 3

\* track_request keeping the oldest requests, requests[:100]
AppendRequest_KeepsOldest(requests, request_info) ==
    LET grown == Append(requests, request_info)
    IN  IF Len(grown) > MAX_REQUESTS
        THEN SubSeq(grown, 1, MAX_REQUESTS)
        ELSE grown

\* track_request: the request log after the append and the cut to the last
\* MAX_REQUESTS
AppendRequest(requests, request_info) ==
    LET grown == Append(requests, request_info)
    IN  IF Len(grown) > MAX_REQUESTS
        THEN LastN(grown, MAX_REQUESTS)
        ELSE grown

\* track_request adding the input tokens alone to the token totals
TrackRequest_CountsInputOnly(input_text, output_text, model, request_type, tk) ==
    LET input_tokens == CountTokens(input_text, tk, DictGet(tk, "input", 0))
        output_tokens == CountTokens(output_text, tk, DictGet(tk, "output", 0))
        total_tokens == input_tokens + output_tokens
        cost == CalculateCost(input_tokens, output_tokens, model)
        request_info == [timestamp |-> Len(history) + 1,
                         model |-> model,
                         type |-> request_type,
                         input_tokens |-> input_tokens,
                         output_tokens |-> output_tokens,
                         total_tokens |-> total_tokens,
                         cost |-> cost.value]
    IN  /\ Len(history) < MaxTracked
        /\ UNCHANGED manager
        /\ call' = [op |-> "track_request", model |-> model,
                    tokenizer |-> tk.kind]
        /\ IF cost.raised
           THEN \* KeyError out of calculate_cost, before any update
                /\ ret' = [raised |-> TRUE, request_info |-> NoneObj]
                /\ UNCHANGED <<token_usage, history>>
           ELSE /\ token_usage' =
                      [total_tokens |-> token_usage.total_tokens + input_tokens,
                       total_cost |-> token_usage.total_cost + cost.value,
                       session_tokens |->
                           token_usage.session_tokens + input_tokens,
                       session_cost |-> token_usage.session_cost + cost.value,
                       requests |->
                           AppendRequest(token_usage.requests, request_info)]
                /\ history' = Append(history, request_info)
                /\ ret' = [raised |-> FALSE, request_info |-> request_info]
        /\ noChat
        /\ UNCHANGED <<dbVars, docVars, OPENAI_PRICING>>

\* TokenTracker.track_request, when tiktoken ends with outcome tk
TrackRequest(input_text, output_text, model, request_type, tk) ==
    LET input_tokens == CountTokens(input_text, tk, DictGet(tk, "input", 0))
        output_tokens == CountTokens(output_text, tk, DictGet(tk, "output", 0))
        total_tokens == input_tokens + output_tokens
        cost == CalculateCost(input_tokens, output_tokens, model)
        request_info == [timestamp |-> Len(history) + 1,
                         model |-> model,
                         type |-> request_type,
                         input_tokens |-> input_tokens,
                         output_tokens |-> output_tokens,
                         total_tokens |-> total_tokens,
                         cost |-> cost.value]
    IN  /\ Len(history) < MaxTracked
        /\ UNCHANGED manager
        /\ call' = [op |-> "track_request", model |-> model,
                    tokenizer |-> tk.kind]
        /\ IF cost.raised
           THEN \* KeyError out of calculate_cost, before any update
                /\ ret' = [raised |-> TRUE, request_info |-> NoneObj]
                /\ UNCHANGED <<token_usage, history>>
           ELSE /\ token_usage' =
                      [total_tokens |-> token_usage.total_tokens + total_tokens,
                       total_cost |-> token_usage.total_cost + cost.value,
                       session_tokens |->
                           token_usage.session_tokens + total_tokens,
                       session_cost |-> token_usage.session_cost + cost.value,
                       requests |->
                           AppendRequest(token_usage.requests, request_info)]
                /\ history' = Append(history, request_info)
                /\ ret' = [raised |-> FALSE, request_info |-> request_info]
        /\ noChat
        /\ UNCHANGED <<dbVars, docVars, OPENAI_PRICING>>

\* reset_session_usage zeroing the running totals in place of the session
\* counters
ResetSession_ZeroesTotals(usage) ==
    [usage EXCEPT !.total_tokens = 0, !.total_cost = 0]

\* reset_session_usage zeroing the running totals too
ResetSession_ClearsTotals(usage) ==
    [usage EXCEPT !.session_tokens = 0, !.session_cost = 0,
                  !.total_tokens = 0, !.total_cost = 0]

\* TokenTracker.reset_session_usage: the usage after the call
ResetSession(usage) ==
    [usage EXCEPT !.session_tokens = 0, !.session_cost = 0]

\* TokenTracker.reset_session_usage
ResetSessionUsage ==
    /\ UNCHANGED manager
    /\ call' = [op |-> "reset_session_usage"]
    /\ token_usage' = ResetSession(token_usage)
    /\ ret' = EmptyDict
    /\ noChat
    /\ UNCHANGED <<dbVars, docVars, OPENAI_PRICING, history>>

\* TokenTracker.refresh_pricing, the configuration file being config
RefreshPricing(config) ==
    /\ UNCHANGED manager
    /\ call' = [op |-> "refresh_pricing", config |-> config]
    /\ OPENAI_PRICING' = LoadPricingConfig(config)
    /\ ret' = [value |-> TRUE]
    /\ noChat
    /\ UNCHANGED <<dbVars, docVars, token_usage, history>>

\* TokenTracker.calculate_cost called on its own
CalculateCostCall(input_tokens, output_tokens, model) ==
    /\ UNCHANGED manager
    /\ call' = [op |-> "calculate_cost", input_tokens |-> input_tokens,
                output_tokens |-> output_tokens, model |-> model]
    /\ ret' = CalculateCost(input_tokens, output_tokens, model)
    /\ noChat
    /\ UNCHANGED <<dbVars, docVars, tokenVars>>

(***************************************************************************)
(* docker_db_manager.py: start_database, one step for check_docker, one    *)
(* for the start of the container and one for each readiness check.        *)
(***************************************************************************)
\* the number of readiness checks start_database makes at most
max_attempts == 30

\* the functions that call start_database: the menu of main,
\* restart_database and reset_database
Callers == {"main", "restart_database", "reset_database"}

\* start_database returns value to its caller
ReturnFromStartDatabase(value, docker, container, results) ==
    /\ manager' = [manager EXCEPT !.pc = "menu", !.docker = docker,
                                  !.container = container,
                                  !.results = results]
    /\ ret' = [value |-> value]

\* start_database is entered from caller and calls check_docker; found is
\* whether docker and docker-compose answered to --version
StartDatabase(caller, found) ==
    /\ manager.pc = "menu"
    /\ call' = [op |-> "start_database", caller |-> caller]
    /\ IF ~found
       THEN /\ manager' = [pc |-> "menu", caller |-> caller,
                           docker |-> "missing", container |-> None,
                           results |-> <<>>]
            /\ ret' = [value |-> FALSE]
       ELSE /\ manager' = [pc |-> "run_command", caller |-> caller,
                           docker |-> "found", container |-> None,
                           results |-> <<>>]
            /\ ret' = EmptyDict
    /\ noChat
    /\ UNCHANGED <<dbVars, docVars, tokenVars>>

\* run_command("docker-compose up -d postgres", ...); started is whether the
\* command ended with exit status zero
StartContainer(started) ==
    /\ manager.pc = "run_command"
    /\ IF ~started
       THEN ReturnFromStartDatabase(FALSE, manager.docker, "failed", <<>>)
       ELSE /\ manager' = [manager EXCEPT !.pc = "poll",
                                          !.container = "started"]
            /\ UNCHANGED ret
    /\ UNCHANGED call
    /\ noChat
    /\ UNCHANGED <<dbVars, docVars, tokenVars>>

\* start_database taking the end of the loop for readiness: the else branch
\* guarded by attempt < max_attempts, which no attempt fails
ReadinessCheck_FallsThrough(ok) ==
    LET attempt == Len(manager.results)
        results == Append(manager.results, ok)
    IN  /\ manager.pc = "poll"
        /\ IF ok
           THEN ReturnFromStartDatabase(TRUE, manager.docker,
                                        manager.container, results)
           ELSE IF attempt < max_attempts - 1
           THEN /\ manager' = [manager EXCEPT !.results = results]
                /\ UNCHANGED ret
           ELSE ReturnFromStartDatabase(TRUE, manager.docker,
                                        manager.container, results)
        /\ UNCHANGED call
        /\ noChat
        /\ UNCHANGED <<dbVars, docVars, tokenVars>>

\* one pass of the polling loop of start_database: pg_isready is run, ok is
\* whether it ended with exit status zero; attempt is the loop variable
ReadinessCheck(ok) ==
    LET attempt == Len(manager.results)
        results == Append(manager.results, ok)
    IN  /\ manager.pc = "poll"
        /\ IF ok
           THEN \* break, the connection data are printed, return True
                ReturnFromStartDatabase(TRUE, manager.docker,
                                        manager.container, results)
           ELSE IF attempt < max_attempts - 1
           THEN \* time.sleep(2) and the next attempt
                /\ manager' = [manager EXCEPT !.results = results]
                /\ UNCHANGED ret
           ELSE ReturnFromStartDatabase(FALSE, manager.docker,
                                        manager.container, results)
        /\ UNCHANGED call
        /\ noChat
        /\ UNCHANGED <<dbVars, docVars, tokenVars>>

(***************************************************************************)
(* The application: one call at a time.                                    *)
(***************************************************************************)
\* the files and the indexing outcomes the chat specification uploads
ChatUploadFiles == {f \in UploadFiles : f.name = "a.txt"}
ChatProcessingOutcomes == {"indexed", "error"}

Next ==
    \/ \E user_message \in UserTexts : ProcessMessageEmpty(user_message)
    \/ \E user_message \in UserTexts : ProcessMessage(user_message)
    \/ \E role \in {"user", "assistant"} : AddMessageCall(role, "note")
    \/ ClearConversation
    \/ \E connection_string \in ConnectionStrings,
          reflection \in ReflectionOutcomes :
          ConnectToDatabase(connection_string, reflection, ShopLoaded)
    \/ DisconnectFromDatabase
    \/ \E uploaded_file \in ChatUploadFiles,
          processing \in ChatProcessingOutcomes :
          ProcessUploadedFile(uploaded_file, TRUE, processing)
    \/ ClearAllDocuments(DOMAIN uploaded_files)

Spec == Init /\ [][Next]_vars

(***************************************************************************)
(* The application as app.py drives the chat engine: the store is written  *)
(* by process_message and clear_conversation alone.                        *)
(***************************************************************************)
NextApplication ==
    \/ \E user_message \in UserTexts : ProcessMessageEmpty(user_message)
    \/ \E user_message \in UserTexts : ProcessMessage(user_message)
    \/ ClearConversation
    \/ \E connection_string \in ConnectionStrings,
          reflection \in ReflectionOutcomes :
          ConnectToDatabase(connection_string, reflection, ShopLoaded)
    \/ DisconnectFromDatabase
    \/ \E uploaded_file \in ChatUploadFiles,
          processing \in ChatProcessingOutcomes :
          ProcessUploadedFile(uploaded_file, TRUE, processing)
    \/ ClearAllDocuments(DOMAIN uploaded_files)

SpecApplication == Init /\ [][NextApplication]_vars

(***************************************************************************)
(* The router alone: classify_query over the states of the two handlers.   *)
(***************************************************************************)
NextClassify ==
    \/ \E user_message \in ClassifyTexts : ClassifyQueryCall(user_message)
    \/ \E connection_string \in ConnectionStrings,
          reflection \in ReflectionOutcomes :
          ConnectToDatabase(connection_string, reflection, ShopLoaded)
    \/ DisconnectFromDatabase
    \/ \E uploaded_file \in ChatUploadFiles,
          processing \in ChatProcessingOutcomes :
          ProcessUploadedFile(uploaded_file, TRUE, processing)
    \/ \E file_hash \in DOMAIN uploaded_files : DeleteDocument(file_hash, TRUE)
    \/ ClearAllDocuments(DOMAIN uploaded_files)

SpecClassify == Init /\ [][NextClassify]_vars

(***************************************************************************)
(* The database handler alone.                                             *)
(***************************************************************************)
\* questions put to the database pipeline: with a database keyword, without
\* one, and with two of the search terms of the enrichment
Questions ==
    {"Select rows", "Show me all customers", "count the Desk lamps"}

NextDatabase ==
    \/ \E connection_string \in ConnectionStrings,
          reflection \in ReflectionOutcomes :
          ConnectToDatabase(connection_string, reflection, ShopLoaded)
    \/ DisconnectFromDatabase
    \/ \E query \in Queries, ex \in ExecutionOutcomes :
          ExecuteSqlQueryCall(query, ex)
    \/ \E question \in Questions, o \in DatabaseOutcomes :
          NaturalLanguageToSqlCall(question, o.en, o.tr, o.ex)
    \/ \E user_message \in Questions, o \in DatabaseOutcomes :
          ProcessDatabaseQueryCall(user_message, o.en, o.tr, o.ex)

SpecDatabase == Init /\ [][NextDatabase]_vars

(***************************************************************************)
(* The connection and its schema catalog alone.                            *)
(***************************************************************************)
NextCatalog ==
    \/ \E connection_string \in ConnectionStrings,
          reflection \in ReflectionOutcomes, lo \in LoadOutcomes :
          ConnectToDatabase(connection_string, reflection, lo)
    \/ DisconnectFromDatabase
    \/ \E lo \in LoadOutcomes : RefreshTableList(lo)

SpecCatalog == Init /\ [][NextCatalog]_vars

(***************************************************************************)
(* The token tracker alone.                                                *)
(***************************************************************************)
\* model names handed to the tracker: priced, the default, and unknown
ModelNames == {"gpt-4o", "gpt-3.5-turbo", "unknown-model"}

\* token counts handed to calculate_cost
TokenCounts == {0, 1000}

\* the requests tracked: a priced model with tiktoken at work, an unknown
\* model with tiktoken failing
TrackedRequests ==
    {[model |-> "gpt-4o",
      tk |-> [kind |-> "encoded", input |-> 1, output |-> 2]],
     [model |-> "unknown-model", tk |-> [kind |-> "Exception"]]}

NextTokens ==
    \/ \E t \in TrackedRequests :
          TrackRequest("hello world!", "ok ok ok", t.model, "chat", t.tk)
    \/ ResetSessionUsage
    \/ \E config \in ConfigFiles : RefreshPricing(config)
    \/ \E input_tokens \in TokenCounts, output_tokens \in TokenCounts,
          model \in ModelNames :
          CalculateCostCall(input_tokens, output_tokens, model)

SpecTokens == Init /\ [][NextTokens]_vars

(***************************************************************************)
(* The document handler alone, with the document pipeline.                 *)
(***************************************************************************)
\* ChatEngine.process_document_query called on its own
ProcessDocumentQueryCall(user_message) ==
    /\ \E o \in DispatchOutcomes("document") :
          /\ UNCHANGED manager
          /\ call' = [op |-> "process_document_query",
                      user_message |-> user_message, retrieval |-> o.re]
          /\ ret' = ProcessDocumentQuery(user_message, o.re)
    /\ noChat
    /\ UNCHANGED <<dbVars, docVars, tokenVars>>

NextDocuments ==
    \/ \E uploaded_file \in UploadFiles, saved \in BOOLEAN,
          processing \in ProcessingOutcomes :
          ProcessUploadedFile(uploaded_file, saved, processing)
    \/ \E file_hash \in DOMAIN uploaded_files, removed \in BOOLEAN :
          DeleteDocument(file_hash, removed)
    \/ \E gone \in SUBSET DOMAIN uploaded_files : ClearAllDocuments(gone)
    \/ \E user_message \in {"what does the file say"} :
          ProcessDocumentQueryCall(user_message)

SpecDocuments == Init /\ [][NextDocuments]_vars

(***************************************************************************)
(* The narration of a result table alone.                                  *)
(***************************************************************************)
\* the largest number of rows of a result table
MaxRows == 11

\* the numbers of rows and of columns of the result tables; a SELECT gives
\* a table with a column at least
RowCounts == {0, 1, 2} \cup 10..MaxRows
ColumnCounts == {1, 2, 5, 6}

\* a result table of the given shape with every cell holding fill
ShapeTable(num_rows, num_cols, fill) ==
    DataFrame([j \in 1..num_cols |-> "c" \o ToString(j)],
              [i \in 1..num_rows |-> [j \in 1..num_cols |-> fill]])

\* ChatEngine._generate_database_response called on its own
GenerateDatabaseResponseCall(question, data, sql_query) ==
    /\ UNCHANGED manager
    /\ call' = [op |-> "generate_database_response", question |-> question,
                data |-> data, sql_query |-> sql_query]
    /\ ret' = [text |-> GenerateDatabaseResponse(question, data, sql_query)]
    /\ noChat
    /\ UNCHANGED <<dbVars, docVars, tokenVars>>

NextNarration ==
    \E question \in {"Select rows", "count the Desk lamps"},
       num_rows \in RowCounts, num_cols \in ColumnCounts,
       fill \in {"x", "y"},
       sql_query \in {"SELECT * FROM customers", None} :
       GenerateDatabaseResponseCall(
           question, ShapeTable(num_rows, num_cols, fill), sql_query)

SpecNarration == Init /\ [][NextNarration]_vars

(***************************************************************************)
(* One session: the store, the accounting and the two handlers side by     *)
(* side.                                                                   *)
(***************************************************************************)
NextSession ==
    \/ AddMessageCall("user", "note")
    \/ ClearConversation
    \/ TrackRequest("hello world!", "ok ok ok", "gpt-4o", "chat",
                    [kind |-> "encoded", input |-> 1, output |-> 2])
    \/ ResetSessionUsage
    \/ ConnectToDatabase("postgresql://up/db", "ok", ShopLoaded)
    \/ DisconnectFromDatabase
    \/ \E uploaded_file \in ChatUploadFiles :
          ProcessUploadedFile(uploaded_file, TRUE, "indexed")

SpecSession == Init /\ [][NextSession]_vars

(***************************************************************************)
(* The upload section of the sidebar.                                      *)
(***************************************************************************)
\* files the widget can hold: those of UploadFiles, a third document with
\* bytes of its own, and a document one byte over the size limit
WidgetFiles ==
    UploadFiles
    \cup {[name |-> "e.docx", content |-> "epsilon", size |-> 5],
          [name |-> "big.pdf", content |-> "omega",
           size |-> MAX_FILE_SIZE_MB * 1024 * 1024 + 1]}

\* the file of the widget named name
WidgetFile(name) == CHOOSE f \in WidgetFiles : f.name = name

\* what the widget holds when the section is rendered: one file, or several
\* files submitted together
Batches ==
    {<<f>> : f \in WidgetFiles}
    \cup {<<WidgetFile("a.txt"), WidgetFile("c.txt"), WidgetFile("e.docx")>>,
          <<WidgetFile("a.txt"), WidgetFile("b.pdf")>>,
          <<WidgetFile("d.exe"), WidgetFile("big.pdf"), WidgetFile("c.txt")>>}

NextUpload ==
    \/ \E batch \in Batches, saved \in BOOLEAN,
          processing \in ProcessingOutcomes :
          RenderFileUploadSection(batch, saved, processing)
    \/ \E file_hash \in DOMAIN uploaded_files, removed \in BOOLEAN :
          DeleteDocument(file_hash, removed)
    \/ \E gone \in SUBSET DOMAIN uploaded_files : ClearAllDocuments(gone)

SpecUpload == Init /\ [][NextUpload]_vars

(***************************************************************************)
(* The database manager script: start_database from each of its callers.   *)
(***************************************************************************)
NextManager ==
    \/ \E caller \in Callers, found \in BOOLEAN : StartDatabase(caller, found)
    \/ \E started \in BOOLEAN : StartContainer(started)
    \/ \E ok \in BOOLEAN : ReadinessCheck(ok)

SpecManager == Init /\ [][NextManager]_vars

\* the script runs on: once start_database is entered, docker-compose and
\* pg_isready end and the next step is taken
SpecManagerFair ==
    /\ SpecManager
    /\ WF_vars(\E started \in BOOLEAN : StartContainer(started))
    /\ WF_vars(\E ok \in BOOLEAN : ReadinessCheck(ok))

(***************************************************************************)
(* Properties of the conversation store.                                   *)
(***************************************************************************)
\* the text is empty or whitespace only
IsBlank(text) == \A i \in 1..Len(text) : IsSpace(CharAt(text, i))

\* the step is a process_message call on a non-blank text
RepliesToMessage ==
    /\ call'.op = "process_message"
    /\ ~IsBlank(call'.user_message)
    /\ clock' # clock

\* C1: one process_message call on a text that is not blank adds exactly two
\* messages to the store, the user's text and then the assistant's answer,
\* and what else the store holds afterwards is what it held before.
C1_AppendsUserThenAssistant ==
    [][RepliesToMessage =>
        LET n == Len(messages')
        IN  /\ clock' = clock + 2
            /\ n >= 2
            /\ messages'[n - 1].role = "user"
            /\ messages'[n - 1].content = call'.user_message
            /\ messages'[n - 1].timestamp = clock + 1
            /\ messages'[n].role = "assistant"
            /\ messages'[n].content = ret'.response
            /\ messages'[n].metadata = ret'
            /\ messages'[n].timestamp = clock + 2
            /\ SubSeq(messages', 1, n - 2) = LastN(messages, n - 2)]_vars

\* C1 witness: a process_message call answered while the store was full
C1_Witness ==
    /\ call.op = "process_message"
    /\ ~IsBlank(call.user_message)
    /\ Len(messages) = 2 * MAX_CONVERSATION_HISTORY
    /\ clock > 2 * MAX_CONVERSATION_HISTORY
    /\ messages[Len(messages)].role = "assistant"
    /\ messages[Len(messages) - 1].content = call.user_message

\* C2: process_message on an empty or whitespace-only text returns the
\* error result "Please enter a message." and leaves the store as it was.
C2_BlankInputRejected ==
    [][(call'.op = "process_message" /\ IsBlank(call'.user_message)) =>
        /\ ret' = [response |-> "Please enter a message.", type |-> "error"]
        /\ messages' = messages
        /\ clock' = clock]_vars

\* C2 witness: a whitespace-only text was rejected with the store non-empty
C2_Witness ==
    /\ call.op = "process_message"
    /\ call.user_message = " \t\n"
    /\ ret.type = "error"
    /\ messages # <<>>

\* C3: the store never holds more than 2 x MAX_CONVERSATION_HISTORY
\* messages, between the two appends of process_message included.
C3_StoreBounded ==
    /\ Len(messages) <= 2 * MAX_CONVERSATION_HISTORY
    /\ Len(midMessages) <= 2 * MAX_CONVERSATION_HISTORY

\* C3 witness: the store is full after more appends than it can hold
C3_Witness ==
    /\ Len(messages) = 2 * MAX_CONVERSATION_HISTORY
    /\ appended > 2 * MAX_CONVERSATION_HISTORY

\* the store new starts with an assistant reply whose user prompt, the
\* message appended just before it, was in the store old and is gone
OrphanedReply(old, new) ==
    /\ new # <<>>
    /\ new[1].role = "assistant"
    /\ \E i \in 1..Len(old) :
          /\ old[i].role = "user"
          /\ old[i].timestamp = new[1].timestamp - 1
          /\ \A j \in 1..Len(new) : new[j] # old[i]

\* C4: no append, the one in the middle of process_message included, leaves
\* at the head of the store an assistant reply whose user prompt was evicted.
C4_EvictsWholePairs ==
    [][/\ ~OrphanedReply(messages, midMessages')
       /\ ~OrphanedReply(messages, messages')]_vars

\* C5: once more than 2 x MAX_CONVERSATION_HISTORY messages were appended to
\* an empty store, it holds exactly the 2 x MAX_CONVERSATION_HISTORY most
\* recently appended ones, oldest first.
C5_KeepsMostRecent ==
    appended > 2 * MAX_CONVERSATION_HISTORY =>
        /\ Len(messages) = 2 * MAX_CONVERSATION_HISTORY
        /\ \A i \in 1..Len(messages) :
              messages[i].timestamp = clock - Len(messages) + i
        /\ call.op = "add_message" =>
              /\ messages[Len(messages)].role = call.role
              /\ messages[Len(messages)].content = call.content

\* C5 witness: 2 x MAX_CONVERSATION_HISTORY + 2 single appends to an empty
\* store
C5_Witness ==
    /\ appended = 2 * MAX_CONVERSATION_HISTORY + 2
    /\ call.op = "add_message"
    /\ Len(messages) = 2 * MAX_CONVERSATION_HISTORY
    /\ messages[1].timestamp = clock - 2 * MAX_CONVERSATION_HISTORY + 1

(***************************************************************************)
(* Properties of the router.                                               *)
(***************************************************************************)
\* the texts of UserTexts that contain a database keyword
DatabaseKeywordTexts == {"Select rows"}

\* C6: a message with a database keyword, processed while no database
\* connection is active, is classified document or general and is not
\* handed to the database pipeline.
C6_NoDatabaseRouteWhenDisconnected ==
    (/\ call.op = "process_message"
     /\ call.user_message \in DatabaseKeywordTexts
     /\ ~connection_status)
    => /\ route \in {"document", "general"}
       /\ ret.type # "database"
       /\ "sql_query" \notin DOMAIN ret
       /\ translated = None
       /\ executed = {}

\* C6 witness: after a failed connect_to_database (the engine was created,
\* the connection was refused) a database-keyword message went elsewhere
C6_Witness ==
    /\ call.op = "process_message"
    /\ call.user_message \in DatabaseKeywordTexts
    /\ ~connection_status
    /\ engine # None
    /\ route = "general"

\* what each text of ClassifyTexts holds: a database keyword, a document
\* keyword, and its number of words
TextFeatures(text) ==
    CASE text = "hi" -> [db |-> FALSE, doc |-> FALSE, words |-> 1]
      [] text = "one two three" -> [db |-> FALSE, doc |-> FALSE, words |-> 3]
      [] text = "Show me all customers" ->
            [db |-> FALSE, doc |-> FALSE, words |-> 4]
      [] text = "Select rows" -> [db |-> TRUE, doc |-> FALSE, words |-> 2]
      [] text = "what does the file say" ->
            [db |-> FALSE, doc |-> TRUE, words |-> 5]
      [] text = "SQL in the PDF" -> [db |-> TRUE, doc |-> TRUE, words |-> 4]
      [] text = "the context" -> [db |-> FALSE, doc |-> TRUE, words |-> 2]
      [] text = "According To Bob" ->
            [db |-> FALSE, doc |-> TRUE, words |-> 3]
      [] text = "one  two\tthree four" ->
            [db |-> FALSE, doc |-> FALSE, words |-> 4]
      [] text = "sum it" -> [db |-> TRUE, doc |-> FALSE, words |-> 2]

\* the class the precedence order gives
ExpectedClass(text, connected, has_document) ==
    LET f == TextFeatures(text)
    IN  IF f.db /\ connected THEN "database"
        ELSE IF f.doc /\ has_document THEN "document"
        ELSE IF has_document /\ f.words > 3 THEN "document"
        ELSE "general"

\* C7: classify_query returns the class the precedence order gives for the
\* text, the connection status and the presence of an uploaded document:
\* database keyword with connection, then document keyword with a
\* document, then more than 3 words with a document, then general.
C7_ClassificationPrecedence ==
    call.op = "classify_query" =>
        /\ ret.value = ExpectedClass(call.user_message, connection_status,
                                     DOMAIN uploaded_files # {})
        /\ route = ret.value

\* C7 witness: a text with both kinds of keyword, classified database while
\* connected with a document uploaded
C7_Witness ==
    /\ call.op = "classify_query"
    /\ call.user_message = "SQL in the PDF"
    /\ connection_status
    /\ DOMAIN uploaded_files # {}
    /\ ret.value = "database"

(***************************************************************************)
(* Properties of the database pipeline.                                    *)
(***************************************************************************)
\* the statements of Queries that do not start with SELECT once trimmed
NonSelectQueries ==
    {"DELETE FROM customers", "", " \t", "\n drop table customers",
     "UPDATE customers SET name = 'SELECT'",
     "WITH x AS (SELECT 1) SELECT * FROM x", "Selec"}

\* what the SELECT statements of Queries are once trimmed
TrimmedSelectQueries == {"SELECT * FROM customers", "select 1"}

\* C8: a statement that does not start with SELECT once trimmed is not sent
\* to the relational store and yields no rows, whether it is handed to
\* execute_sql_query or reported by the NL-to-SQL engine.
C8_OnlySelectExecuted ==
    /\ \A e \in executed : e.statement \in TrimmedSelectQueries
    /\ (call.op = "execute_sql_query" /\ call.query \in NonSelectQueries)
       => (ret.value = NoneObj /\ executed = {})
    /\ (call.op = "natural_language_to_sql" /\ translated \in NonSelectQueries)
       => (ret.value[2] = NoneObj /\ executed = {})
    /\ (call.op = "process_database_query" /\ translated \in NonSelectQueries)
       => (ret.data = NoneObj /\ executed = {})

\* C8 witness: the NL-to-SQL engine reported a DELETE over a live connection
C8_Witness ==
    /\ call.op = "natural_language_to_sql"
    /\ translated = "DELETE FROM customers"
    /\ connection_status
    /\ Reachable(engine)
    /\ executed = {}

\* C9: when the NL-to-SQL engine reports a statement that is not a SELECT,
\* the result of process_database_query and of process_message is
\* error-typed and says that only read queries are allowed.
C9_NonSelectReturnsError ==
    (/\ call.op \in {"process_message", "process_database_query"}
     /\ translated \in NonSelectQueries)
    => /\ ret.type = "error"
       /\ ret.response = "Only SELECT queries are allowed"

\* C10: a SELECT that returns zero rows gives a database-typed result that
\* carries the zero-row table, and a SELECT whose execution fails gives an
\* error-typed result.
C10_EmptyResultIsNotFailure ==
    call.op \in {"process_message", "process_database_query"} =>
        \A e \in executed :
            /\ (e.answer.kind = "rows" /\ Len(e.answer.df.rows) = 0)
               => (ret.type = "database" /\ ret.data = e.answer.df)
            /\ e.answer.kind = "SQLAlchemyError" => ret.type = "error"

\* C11: while the database handler is not connected (initially, after a
\* failed connect_to_database, after disconnect_from_database) every query
\* operation is rejected at once: nothing is translated, no statement is sent
\* to an engine, and the call returns its rejection.
C11_RejectedWhenNotConnected ==
    ~connection_status =>
        /\ executed = {}
        /\ translated = None
        /\ call.op = "execute_sql_query" => ret.value = NoneObj
        /\ call.op = "natural_language_to_sql" =>
              (~ret.raised /\ ret.value = NoneObj)
        /\ call.op = "process_database_query" =>
              /\ ret.type = "error"
              /\ ret.response =
                    "No database connection. Please connect to a database first."

(***************************************************************************)
(* Properties of the router's error handling and of the accounting.        *)
(***************************************************************************)
\* C12: when the backend chosen for a non-blank message fails (the document
\* query, the translation to SQL, the execution of the SQL, the general
\* completion), process_message returns an error-typed result with a text,
\* and the store ends with the user's message and the assistant's answer.
C12_BackendFailureGivesError ==
    (call.op = "process_message" /\ failure # None) =>
        LET n == Len(messages)
        IN  /\ ret.type = "error"
            /\ ret.response # ""
            /\ n >= 2
            /\ messages[n - 1].role = "user"
            /\ messages[n - 1].content = call.user_message
            /\ messages[n].role = "assistant"
            /\ messages[n].content = ret.response

\* C13: each process_message call answered by a backend creates exactly one
\* usage record (the history of records and the running totals grow by it,
\* the request log ends with it) and the assistant message appended carries
\* the record in its metadata.
C13_EachAnswerIsAccounted ==
    [][(RepliesToMessage /\ ret'.type # "error") =>
        LET record == history'[Len(history')]
            reply == messages'[Len(messages')]
        IN  /\ Len(history') = Len(history) + 1
            /\ token_usage'.total_tokens =
                  token_usage.total_tokens + record.total_tokens
            /\ token_usage'.total_cost = token_usage.total_cost + record.cost
            /\ token_usage'.requests # <<>>
            /\ token_usage'.requests[Len(token_usage'.requests)] = record
            /\ "token_usage" \in DOMAIN reply.metadata
            /\ reply.metadata.token_usage = record]_vars

(***************************************************************************)
(* Properties of the token tracker.                                        *)
(***************************************************************************)
\* C14: no track_request and no refresh_pricing call decreases total_tokens,
\* total_cost, session_tokens or session_cost; reset_session_usage sets
\* session_tokens and session_cost to zero and leaves total_tokens,
\* total_cost and the request log as they were.
C14_TotalsNeverDecrease ==
    [][/\ call'.op \in {"track_request", "refresh_pricing"} =>
             /\ token_usage'.total_tokens >= token_usage.total_tokens
             /\ token_usage'.total_cost >= token_usage.total_cost
             /\ token_usage'.session_tokens >= token_usage.session_tokens
             /\ token_usage'.session_cost >= token_usage.session_cost
       /\ call'.op = "reset_session_usage" =>
             /\ token_usage'.session_tokens = 0
             /\ token_usage'.session_cost = 0
             /\ token_usage'.total_tokens = token_usage.total_tokens
             /\ token_usage'.total_cost = token_usage.total_cost
             /\ token_usage'.requests = token_usage.requests]_vars

\* C14 witness: the session counters were reset after requests were tracked
C14_Witness ==
    /\ call.op = "reset_session_usage"
    /\ token_usage.session_tokens = 0
    /\ token_usage.session_cost = 0
    /\ token_usage.total_tokens > 0
    /\ token_usage.total_cost > 0
    /\ token_usage.requests # <<>>

RECURSIVE SumTokens(_)
\* the tokens of the records of a sequence, added up
SumTokens(records) ==
    IF records = <<>> THEN 0
    ELSE Head(records).total_tokens + SumTokens(Tail(records))

RECURSIVE SumCost(_)
\* the costs of the records of a sequence, added up
SumCost(records) ==
    IF records = <<>> THEN 0
    ELSE Head(records).cost + SumCost(Tail(records))

\* C15: after k tracked requests the request log holds the most recent
\* min(k, MAX_REQUESTS) of them in the order they were tracked, and the
\* running totals are those of all k requests, the dropped ones included.
C15_LogKeepsMostRecent ==
    LET k == Len(history)
        n == Len(token_usage.requests)
    IN  /\ n = IF k < MAX_REQUESTS THEN k ELSE MAX_REQUESTS
        /\ \A i \in 1..n : token_usage.requests[i] = history[k - n + i]
        /\ token_usage.total_tokens = SumTokens(history)
        /\ token_usage.total_cost = SumCost(history)

\* C15 witness: more requests were tracked than the log keeps
C15_Witness ==
    /\ call.op = "track_request"
    /\ Len(history) > MAX_REQUESTS
    /\ Len(token_usage.requests) = MAX_REQUESTS
    /\ token_usage.requests[1].timestamp = Len(history) - MAX_REQUESTS + 1
    /\ token_usage.total_tokens > SumTokens(token_usage.requests)

\* the configuration files from which no price table can be loaded
FailingConfigs == {[kind |-> "malformed"], ConfigWithoutPrices}

\* C16: refresh_pricing returns false and leaves the price table as it was
\* when the configuration file is unreadable, malformed or without a valid
\* price entry, and returns true, the table replaced, otherwise.
C16_FailedLoadKeepsTable ==
    [][call'.op = "refresh_pricing" =>
          IF call'.config \in FailingConfigs
          THEN ret'.value = FALSE /\ OPENAI_PRICING' = OPENAI_PRICING
          ELSE ret'.value = TRUE]_vars

\* C17: for a model name absent from the price table, whichever table
\* load_pricing_config or refresh_pricing installed, calculate_cost does not
\* raise and returns the cost at the prices of gpt-3.5-turbo.
C17_UnknownModelUsesDefault ==
    (call.op = "calculate_cost" /\ call.model \notin DOMAIN OPENAI_PRICING) =>
        /\ ~ret.raised
        /\ "gpt-3.5-turbo" \in DOMAIN OPENAI_PRICING
        /\ ret.value =
              call.input_tokens * OPENAI_PRICING["gpt-3.5-turbo"].input
              + call.output_tokens * OPENAI_PRICING["gpt-3.5-turbo"].output

\* C18: a calculate_cost call changes no state; the cost it returns is
\* input_tokens x price.input + output_tokens x price.output (per 1000
\* tokens) at the price of the model, a function of its inputs and the
\* price table only; delta more output tokens cost delta x price.output more.
C18_CostIsPureAndLinear ==
    [][(call'.op = "calculate_cost" /\ ~ret'.raised) =>
        LET m == IF call'.model \in DOMAIN OPENAI_PRICING
                 THEN call'.model ELSE "gpt-3.5-turbo"
            price == OPENAI_PRICING[m]
        IN  /\ UNCHANGED <<tokenVars, messages, dbVars, docVars>>
            /\ ret'.value = call'.input_tokens * price.input
                            + call'.output_tokens * price.output
            /\ \A delta \in {1, 1000} :
                  CalculateCost(call'.input_tokens,
                                call'.output_tokens + delta,
                                call'.model).value
                  = ret'.value + delta * price.output]_vars

\* C18 witness: the cost of 1000 input and 1000 output tokens of a priced
\* model whose two prices differ
C18_Witness ==
    /\ call.op = "calculate_cost"
    /\ call.model = "gpt-4o"
    /\ call.input_tokens = 1000
    /\ call.output_tokens = 1000
    /\ ~ret.raised
    /\ ret.value = 1000 * OPENAI_PRICING["gpt-4o"].input
                   + 1000 * OPENAI_PRICING["gpt-4o"].output
    /\ OPENAI_PRICING["gpt-4o"].input # OPENAI_PRICING["gpt-4o"].output

(***************************************************************************)
(* Properties of the document handler.                                     *)
(***************************************************************************)
\* C19: uploading bytes whose content hash is in the catalog, under the
\* same or another file name, is reported as a duplicate: nothing is saved,
\* nothing is indexed, and the catalog keeps its one entry for that hash.
C19_DuplicateBytesRejected ==
    [][(/\ call'.op = "process_uploaded_file"
        /\ GetFileHash(call'.file.content) \in DOMAIN uploaded_files) =>
        LET file_hash == GetFileHash(call'.file.content)
        IN  /\ ret'.outcome = "duplicate"
            /\ uploaded_files' = uploaded_files
            /\ document_index' = document_index
            /\ Cardinality({k \in DOMAIN uploaded_files' :
                   uploaded_files'[k].file_hash = file_hash}) = 1]_vars

\* C19 witness: the bytes of a.txt, uploaded and indexed, were uploaded
\* again as b.pdf and reported as a duplicate
C19_Witness ==
    /\ call.op = "process_uploaded_file"
    /\ call.file.name = "b.pdf"
    /\ ret.outcome = "duplicate"
    /\ DOMAIN uploaded_files = {GetFileHash(call.file.content)}
    /\ uploaded_files[GetFileHash(call.file.content)].original_name = "a.txt"
    /\ uploaded_files[GetFileHash(call.file.content)].processed

\* C20: while no document index exists, before any upload and after
\* clear_all_documents, process_document_query returns the error-typed
\* result that says no documents are uploaded, with no sources.
C20_NoIndexGivesError ==
    (call.op = "process_document_query" /\ document_index = NoneObj) =>
        ret = [response |-> "No documents are currently uploaded. Please upload some documents first.",
               sources |-> <<>>, type |-> "error"]

\* C20 witness: the query was made after clear_all_documents reset the
\* index and left an indexed file in the catalog
C20_Witness ==
    /\ call.op = "process_document_query"
    /\ document_index = NoneObj
    /\ \E k \in DOMAIN uploaded_files : uploaded_files[k].processed
    /\ ret.type = "error"

\* the documents an index holds, none when there is no index
IndexedDocuments(index) == IF index = NoneObj THEN {} ELSE index.documents

\* C21: a successful process_document call made while there is no index
\* creates the index from that one document; a later successful call adds
\* its document to the documents the index held; and no call other than
\* clear_all_documents removes a document from the index, so the index holds
\* every document ingested since the last clear.
C21_IndexGrowsByInsertion ==
    [][/\ (call'.op = "process_uploaded_file" /\ ret'.outcome = "processed") =>
             LET document == [file_hash |-> GetFileHash(call'.file.content),
                              file_name |-> call'.file.name]
             IN  /\ document_index' # NoneObj
                 /\ document_index'.documents =
                       IndexedDocuments(document_index) \cup {document}
                 /\ document_index = NoneObj =>
                       document_index'.documents = {document}
       /\ call'.op # "clear_all_documents" =>
             IndexedDocuments(document_index)
                 \subseteq IndexedDocuments(document_index')]_vars

\* C21 witness: a second document was ingested into the index the first
\* ingestion created, and the index holds both
C21_Witness ==
    /\ call.op = "process_uploaded_file"
    /\ ret.outcome = "processed"
    /\ document_index # NoneObj
    /\ Cardinality(document_index.documents) = 2
    /\ \A k \in DOMAIN uploaded_files :
          /\ uploaded_files[k].processed
          /\ [file_hash |-> k, file_name |-> uploaded_files[k].original_name]
                \in document_index.documents
    /\ Cardinality(DOMAIN uploaded_files) = 2

(***************************************************************************)
(* Frame of clear_conversation.                                            *)
(***************************************************************************)
\* C22: clear_conversation empties the conversation store whatever it held,
\* a full store included, and leaves the token and cost totals, the request
\* log, the database connection state and the document catalog and index
\* as they were.
C22_ClearOnlyEmptiesStore ==
    [][call'.op = "clear_conversation" =>
          /\ messages' = <<>>
          /\ token_usage' = token_usage
          /\ OPENAI_PRICING' = OPENAI_PRICING
          /\ engine' = engine
          /\ sql_database' = sql_database
          /\ connection_status' = connection_status
          /\ available_tables' = available_tables
          /\ uploaded_files' = uploaded_files
          /\ document_index' = document_index]_vars

\* C22 witness: the store was cleared after it had been filled, with
\* requests tracked, a database connected and a document indexed
C22_Witness ==
    /\ call.op = "clear_conversation"
    /\ messages = <<>>
    /\ clock >= 2 * MAX_CONVERSATION_HISTORY
    /\ token_usage.total_tokens > 0
    /\ token_usage.total_cost > 0
    /\ token_usage.requests # <<>>
    /\ connection_status
    /\ DOMAIN uploaded_files # {}
    /\ document_index # NoneObj

(***************************************************************************)
(* Properties of the general path.                                         *)
(***************************************************************************)
\* C23: on the general path the language model is handed the system
\* instruction, then the most recent messages (at most RECENT_MESSAGES) the
\* store held before the call, oldest first, then the new user message, once,
\* as the last entry.
C23_GeneralContextSupplied ==
    [][(RepliesToMessage /\ route' = "general") =>
          CompletionInput(midMessages', call'.user_message)
          = <<[role |-> "system", content |-> system_message]>>
            \o [i \in 1..Len(LastN(messages, RECENT_MESSAGES)) |->
                  [role |-> LastN(messages, RECENT_MESSAGES)[i].role,
                   content |-> LastN(messages, RECENT_MESSAGES)[i].content]]
            \o <<[role |-> "user", content |-> call'.user_message]>>]_vars

(***************************************************************************)
(* More properties of the database pipeline.                               *)
(***************************************************************************)
\* the last call went through the database pipeline over a connection and
\* the NL-to-SQL engine answered without a usable statement
NoUsableStatement ==
    /\ \/ call.op = "process_database_query"
       \/ call.op = "process_message" /\ route = "database"
    /\ connection_status
    /\ translated = None
    /\ failure = None

\* C24: when the NL-to-SQL engine yields no usable statement, the database
\* pipeline returns a result that is not an error, whose sql_query is None
\* and whose response is the engine's narration text as it is, not a
\* row-count summary.
C24_NarrationIsTheAnswer ==
    NoUsableStatement =>
        /\ ret.type = "database"
        /\ ret.sql_query = None
        /\ ret.response = AnswerText

\* C25: whatever happens while the enrichment gathers its context (the
\* connection fails, the category column is missing, a sample query fails),
\* natural_language_to_sql hands the NL-to-SQL engine a question that starts
\* with the user's question: the enrichment never aborts the query.
C25_EnrichmentNeverAborts ==
    /\ (call.op = "natural_language_to_sql" /\ sql_database # None) =>
          /\ asked # None
          /\ StrStartsWith(asked, call.question \o "\n\nContext: ")
    /\ (call.op = "process_database_query" /\ connection_status) =>
          /\ asked # None
          /\ StrStartsWith(asked, call.user_message \o "\n\nContext: ")
    /\ (call.op = "process_message" /\ route = "database") =>
          /\ asked # None
          /\ StrStartsWith(asked, call.user_message \o "\n\nContext: ")

\* C25 witness: a sample query of the enrichment failed after the category
\* query had answered, and the NL-to-SQL engine was asked and reported a
\* statement
C25_Witness ==
    /\ call.op = "natural_language_to_sql"
    /\ call.enrichment = "sample_error"
    /\ call.question = "count the Desk lamps"
    /\ engine # None
    /\ Reachable(engine)
    /\ StrContains(asked, "The products table has these categories")
    /\ ~StrContains(asked, "Products with")
    /\ translated = "SELECT * FROM customers"
    /\ ~ret.raised

(***************************************************************************)
(* Properties of the schema catalog.                                       *)
(***************************************************************************)
\* the table list and the schemas that reflect what the inspector reports
\* of the live database
CatalogOf(entries) ==
    IF entries = ShopTables
    THEN [available_tables |-> <<"customers", "products">>,
          table_schemas |->
              ("customers" :> [schema |-> "public", table |-> "customers",
                               columns |-> <<"id", "name">>])
              @@ ("products" :> [schema |-> "public", table |-> "products",
                                 columns |-> <<"id", "name", "category">>])]
    ELSE [available_tables |-> <<"customers", "products", "sales.orders">>,
          table_schemas |->
              ("customers" :> [schema |-> "public", table |-> "customers",
                               columns |-> <<"id", "name">>])
              @@ ("products" :> [schema |-> "public", table |-> "products",
                                 columns |-> <<"id", "name", "category">>])
              @@ ("sales.orders" :> [schema |-> "sales", table |-> "orders",
                                     columns |-> <<"id">>])]

\* C26: after a successful connect_to_database the table list and the
\* schemas are those of the live database; after refresh_table_list while
\* connected they are those of the live database again; after
\* disconnect_from_database both are empty and the connection status is
\* false; refresh_table_list while disconnected changes nothing.
C26_CatalogFollowsConnection ==
    [][/\ (call'.op = "connect_to_database" /\ ret'.value) =>
             /\ connection_status'
             /\ available_tables' = CatalogOf(call'.load.entries).available_tables
             /\ table_schemas' = CatalogOf(call'.load.entries).table_schemas
       /\ (call'.op = "refresh_table_list" /\ connection_status) =>
             /\ available_tables' = CatalogOf(call'.load.entries).available_tables
             /\ table_schemas' = CatalogOf(call'.load.entries).table_schemas
       /\ call'.op = "disconnect_from_database" =>
             /\ available_tables' = <<>>
             /\ table_schemas' = EmptyDict
             /\ ~connection_status'
       /\ (call'.op = "refresh_table_list" /\ ~connection_status) =>
             UNCHANGED dbVars]_vars

(***************************************************************************)
(* Properties of the document pipeline.                                    *)
(***************************************************************************)
\* C27: on a successful document query the sources list has one entry for
\* each source attribution the retrieval capability reported, in the order
\* reported, nothing sorted, dropped or repeated, and each entry carries the
\* file name and the score of its attribution.
C27_SourcesAsReported ==
    (call.op = "process_document_query" /\ ret.type = "document") =>
        LET reported == call.retrieval.source_nodes
        IN  /\ Len(ret.sources) = Len(reported)
            /\ \A i \in 1..Len(reported) :
                  /\ ret.sources[i].file_name = reported[i].metadata.file_name
                  /\ ret.sources[i].score = reported[i].score

\* C27 witness: two attributions to two files were reported with the lower
\* score first, and the sources list has them in that order
C27_Witness ==
    /\ call.op = "process_document_query"
    /\ ret.type = "document"
    /\ Len(ret.sources) = 2
    /\ ret.sources[1].score < ret.sources[2].score
    /\ ret.sources[1].file_name # ret.sources[2].file_name
    /\ call.retrieval.source_nodes[1].score = ret.sources[1].score

C29_RecordIsConsistent ==
    [][(call'.op = "track_request" /\ ~ret'.raised) =>
        LET record == ret'.request_info
            m == IF record.model \in DOMAIN OPENAI_PRICING
                 THEN record.model ELSE "gpt-3.5-turbo"
        IN  /\ record.model = call'.model
            /\ record.input_tokens >= 0
            /\ record.output_tokens >= 0
            /\ record.total_tokens = record.input_tokens + record.output_tokens
            /\ record.cost = record.input_tokens * OPENAI_PRICING[m].input
                             + record.output_tokens * OPENAI_PRICING[m].output
            /\ token_usage'.total_tokens =
                  token_usage.total_tokens + record.total_tokens
            /\ token_usage'.session_tokens =
                  token_usage.session_tokens + record.total_tokens
            /\ token_usage'.total_cost = token_usage.total_cost + record.cost
            /\ token_usage'.session_cost =
                  token_usage.session_cost + record.cost
            /\ token_usage'.requests[Len(token_usage'.requests)] = record
            /\ \A i \in 1..Len(token_usage'.requests) :
                  LET logged == token_usage'.requests[i]
                  IN  /\ logged.input_tokens >= 0
                      /\ logged.output_tokens >= 0
                      /\ logged.total_tokens =
                            logged.input_tokens + logged.output_tokens]_vars

\* C29 witness: after the price table was replaced, a request for a model
\* without a price was tracked at the new prices of gpt-3.5-turbo, with the
\* tokens estimated from the lengths of the texts
C29_Witness ==
    /\ call.op = "track_request"
    /\ ~ret.raised
    /\ ret.request_info.model = "unknown-model"
    /\ OPENAI_PRICING["gpt-3.5-turbo"] = [input |-> 100, output |-> 300]
    /\ ret.request_info.input_tokens = 3
    /\ ret.request_info.output_tokens = 2
    /\ ret.request_info.cost = 900
    /\ Len(token_usage.requests) = MAX_REQUESTS
    /\ token_usage.total_cost > 900

(***************************************************************************)
(* Properties of the narration of a result table.                          *)
(***************************************************************************)
\* the text states the numbers of rows and of columns of the table
StatesCounts(text, data) ==
    /\ StrContains(text, "I found " \o ToString(Len(data.rows)) \o " record")
    /\ StrContains(text, " with " \o ToString(Len(data.columns)) \o " columns.")

\* the text says that a preview of the first 10 rows is shown
ClaimsPreview(text) == StrContains(text, "Showing first 10")

\* the text depends on the shape of the table alone, and says that the
\* first 10 of all the rows are shown exactly when there are more than 10
ShapeOnlyAndPreview ==
    /\ (call.op = "generate_database_response"
        /\ call'.op = "generate_database_response"
        /\ Len(call.data.rows) = Len(call'.data.rows)
        /\ Len(call.data.columns) = Len(call'.data.columns))
       => ret'.text = ret.text
    /\ call'.op = "generate_database_response" =>
          /\ Len(call'.data.rows) > 10 =>
                StrContains(ret'.text,
                            "Showing first 10 out of "
                            \o ToString(Len(call'.data.rows)) \o " records:")
          /\ Len(call'.data.rows) <= 10 => ~ClaimsPreview(ret'.text)

\* C30 as claimed: the answer text depends on the shape of the result table
\* alone; it states the row count and the column count of every result
\* table, and says that the first 10 of all the rows are shown exactly when
\* the table has more than 10 rows.
C30_NarrationFromShape ==
    [][/\ ShapeOnlyAndPreview
       /\ call'.op = "generate_database_response" =>
             StatesCounts(ret'.text, call'.data)]_vars

\* C30 amended: the same, the row count and the column count being stated
\* for every result table that has a row; for a table without rows the text
\* says that the query returned no results.
C30_NarrationFromShapeOfRows ==
    [][/\ ShapeOnlyAndPreview
       /\ call'.op = "generate_database_response" =>
             IF Len(call'.data.rows) > 0
             THEN StatesCounts(ret'.text, call'.data)
             ELSE ret'.text =
                     "The query executed successfully but returned no results."]_vars

\* C30 witness: a table of 11 rows and 6 columns was narrated with its
\* counts and the preview of 10
C30_Witness ==
    /\ call.op = "generate_database_response"
    /\ Len(call.data.rows) = 11
    /\ Len(call.data.columns) = 6
    /\ ret.text = "I found 11 records with 6 columns. \nShowing first 10 out of 11 records:"

(***************************************************************************)
(* C31: count_tokens in the degraded mode                                  *)
(***************************************************************************)
\* the texts of the tracked requests with a quarter of their length, rounded
\* down: "hello world!" has 12 characters, "ok ok ok" has 8
QuarterLength == [input |-> 3, output |-> 2]

\* C31: count_tokens never raises: when the tokenizer fails it returns
\* floor(length(text) / 4), a non-negative integer, so a track_request call
\* made while the tokenizer fails completes and appends a record holding
\* these counts.
C31_DegradedCountStillRecords ==
    (call.op = "track_request" /\ call.tokenizer = "Exception") =>
        /\ ~ret.raised
        /\ ret.request_info.input_tokens = QuarterLength.input
        /\ ret.request_info.output_tokens = QuarterLength.output
        /\ ret.request_info.input_tokens >= 0
        /\ ret.request_info.output_tokens >= 0
        /\ Len(token_usage.requests) > 0
        /\ token_usage.requests[Len(token_usage.requests)] = ret.request_info

(***************************************************************************)
(* C32: the roles of the conversation store                                *)
(***************************************************************************)
\* C32: after every completed process_message call and after
\* clear_conversation the store has even length and its roles alternate
\* user, assistant, user, assistant, ..., starting with a user message,
\* evictions included.
C32_RolesAlternate ==
    /\ Len(messages) % 2 = 0
    /\ \A i \in 1..Len(messages) :
          messages[i].role = IF i % 2 = 1 THEN "user" ELSE "assistant"

\* C32 witness: a second process_message call was answered, the pair of the
\* first one evicted, and the store holds the user's text and its answer
C32_Witness ==
    /\ call.op = "process_message"
    /\ appended = 2 * MAX_CONVERSATION_HISTORY + 2
    /\ Len(messages) = 2 * MAX_CONVERSATION_HISTORY
    /\ messages[1].role = "user"
    /\ messages[1].timestamp > 1
    /\ messages[Len(messages)].role = "assistant"
    /\ messages[Len(messages)].timestamp = clock

(***************************************************************************)
(* C33: the document route and the index                                   *)
(***************************************************************************)
\* the answer of the document pipeline when there is no index
NoDocumentsAnswer ==
    "No documents are currently uploaded. Please upload some documents first."

\* C33: whenever process_message routes a text to the document pipeline a
\* document index exists, and the pipeline does not answer that no documents
\* are uploaded; after a failed processing, a deletion or a bulk clear too.
C33_DocumentRouteHasIndex ==
    (call.op = "process_message" /\ route = "document") =>
        /\ document_index # NoneObj
        /\ ret.response # NoDocumentsAnswer

(***************************************************************************)
(* C34, C35: the state of the database handler                             *)
(***************************************************************************)
\* C34: a connect_to_database call that returns False, for an invalid
\* connection string or an unreachable database, leaves engine,
\* sql_database, connection_status, available_tables and table_schemas as
\* they were, whether the handler was disconnected or connected before.
C34_FailedConnectChangesNothing ==
    [][(call'.op = "connect_to_database" /\ ret'.value = FALSE) =>
          /\ engine' = engine
          /\ sql_database' = sql_database
          /\ connection_status' = connection_status
          /\ available_tables' = available_tables
          /\ table_schemas' = table_schemas]_vars

\* C35: in every reachable state connection_status is true if and only if
\* both engine and sql_database are set; the status is false whenever
\* execute_sql_query would find no engine, and the engine is unset whenever
\* the status is false.
C35_StatusIffEngineAndDatabase ==
    /\ connection_status <=> (engine # None /\ sql_database # None)
    /\ engine = None => ~connection_status
    /\ ~connection_status => engine = None

(***************************************************************************)
(* C36: session counters, running totals and the request log               *)
(***************************************************************************)
\* C36: in every reachable state session_tokens <= total_tokens and
\* session_cost <= total_cost, and the request log holds no more records
\* than track_request calls were made since the session state was
\* initialised.
C36_SessionWithinTotals ==
    /\ token_usage.session_tokens <= token_usage.total_tokens
    /\ token_usage.session_cost <= token_usage.total_cost
    /\ Len(token_usage.requests) <= Len(history)

\* C36 witness: requests were tracked before and after a reset of the
\* session counters, more of them than the log keeps
C36_Witness ==
    /\ call.op = "track_request"
    /\ ~ret.raised
    /\ token_usage.session_tokens > 0
    /\ token_usage.session_tokens < token_usage.total_tokens
    /\ token_usage.session_cost > 0
    /\ token_usage.session_cost < token_usage.total_cost
    /\ Len(token_usage.requests) < Len(history)

(***************************************************************************)
(* C37: the document limit on the upload path                              *)
(***************************************************************************)
\* the files of the widget validate_file turns away whatever the catalog
\* holds: d.exe for its type, big.pdf for its size
AlwaysRejected == {"d.exe", "big.pdf"}

\* validate_file turns the file away from the catalog: for its type or
\* size, or because the catalog is full
TurnedAway(catalog, file) ==
    \/ file.name \in AlwaysRejected
    \/ Cardinality(DOMAIN catalog) >= MAX_DOCUMENTS

\* C37: through the upload path the uploaded-file catalog never holds more
\* than MAX_DOCUMENTS entries, whatever uploads and deletes came before and
\* however many files are submitted in one batch; a file rejected by
\* validate_file for its type, its size or the document count leaves the
\* catalog and the index unchanged.
C37_CatalogWithinLimit ==
    [][/\ Cardinality(DOMAIN uploaded_files') <= MAX_DOCUMENTS
       /\ call'.op = "render_file_upload_section" =>
             LET steps == ret'.steps
             IN  /\ Len(steps) = Len(call'.batch)
                 /\ steps[1].before = [uploaded_files |-> uploaded_files,
                                       document_index |-> document_index]
                 /\ steps[Len(steps)].after =
                        [uploaded_files |-> uploaded_files',
                         document_index |-> document_index']
                 /\ \A i \in 1..Len(steps) :
                       /\ steps[i].file = call'.batch[i]
                       /\ i > 1 => steps[i].before = steps[i - 1].after
                       /\ Cardinality(DOMAIN steps[i].after.uploaded_files)
                              <= MAX_DOCUMENTS
                       /\ (/\ GetFileHash(steps[i].file.content)
                                 \notin DOMAIN steps[i].before.uploaded_files
                           /\ TurnedAway(steps[i].before.uploaded_files,
                                         steps[i].file)) =>
                              /\ steps[i].outcome = "invalid"
                              /\ steps[i].after = steps[i].before]_vars

\* C37 witness: three documents were submitted in one batch, two were saved
\* and indexed and the third was rejected because the catalog was full
C37_Witness ==
    /\ call.op = "render_file_upload_section"
    /\ Len(call.batch) = 3
    /\ ret.steps[1].outcome = "processed"
    /\ ret.steps[2].outcome = "processed"
    /\ ret.steps[3].outcome = "invalid"
    /\ ret.steps[3].file.name = "e.docx"
    /\ Cardinality(DOMAIN uploaded_files) = MAX_DOCUMENTS
    /\ GetFileHash("epsilon") \notin DOMAIN uploaded_files

(***************************************************************************)
(* C38: the readiness polling of start_database                            *)
(***************************************************************************)
\* start_database has returned to its caller
Returned == call.op = "start_database" /\ manager.pc = "menu"

\* every readiness check but the last one failed
OnlyLastMaySucceed(results) ==
    \A i \in 1..(Len(results) - 1) : ~results[i]

\* what holds of the readiness checks made so far and of the value returned
PollingIsSound ==
    /\ Len(manager.results) <= 30
    /\ OnlyLastMaySucceed(manager.results)
    /\ manager.pc = "poll" => \A i \in 1..Len(manager.results) :
                                 ~manager.results[i]
    /\ manager.pc = "poll" => Len(manager.results) < 30
    /\ Returned =>
          /\ ret.value = TRUE <=>
                /\ manager.results # <<>>
                /\ manager.results[Len(manager.results)]
          /\ ret.value = FALSE =>
                \/ manager.results = <<>>
                \/ Len(manager.results) = 30
          /\ (manager.docker = "missing" \/ manager.container = "failed") =>
                /\ ret.value = FALSE
                /\ manager.results = <<>>
          /\ (manager.docker = "found" /\ manager.container = "started") =>
                manager.results # <<>>

\* C38: the readiness polling of start_database terminates: it makes at
\* most 30 readiness checks, returns True as soon as one check succeeds and
\* False after the 30th consecutive failed check, never reports the database
\* as ready without a successful check, and returns False without polling
\* when Docker is missing or the container fails to start.
C38_PollingTerminates ==
    /\ []PollingIsSound
    /\ (manager.pc # "menu") ~> Returned

\* C38 witness: start_database gave up after 30 failed readiness checks
C38_Witness ==
    /\ Returned
    /\ manager.docker = "found"
    /\ manager.container = "started"
    /\ Len(manager.results) = 30
    /\ \A i \in 1..30 : ~manager.results[i]
    /\ ret.value = FALSE
====
